---------------------------- MODULE Spec2Model ----------------------------
(***************************************************************************)
(* Model of the PgDumpLens diff engine and dump life cycle.                 *)
(*                                                                         *)
(*   backend/core/src/diff.rs          compare_schemas, compare_columns    *)
(*   backend/api/src/handlers/diff.rs  compare_dumps (checksum enrichment) *)
(*                                     calculate_table_checksum,           *)
(*                                     compare_table_data,                 *)
(*                                     find_sandbox_db_for_original        *)
(*   backend/core/src/schema.rs        find_related_tables                 *)
(*   backend/api/src/handlers/dumps.rs upload_dump, restore_dump           *)
(*   backend/worker/src/jobs.rs        process_pending_jobs                *)
(*   backend/worker/src/main.rs        the worker loop                     *)
(*                                                                         *)
(* Encoding.                                                               *)
(*   String      a sequence of byte values; Rust orders str bytewise and   *)
(*               lexicographically, which StrCmp computes.                 *)
(*   Option<T>   None is <<>>, Some(x) is <<x>>.                           *)
(*   Vec<T>      a sequence.                                               *)
(*   i64         an integer of I64Bits bits in two's complement.  TLC's    *)
(*               integers are 32 bits wide, so the width is scaled down;   *)
(*               I64_MIN and I64_MAX are the extremes of the scaled type.  *)
(*   HashMap / HashSet iteration order is unspecified in Rust: every loop  *)
(*               over one takes its order from a permutation the action    *)
(*               picks arbitrarily.                                        *)
(*   updated_at  the dumps rows are kept in the order of their updated_at, *)
(*               least recent first; a write moves its row to the end.     *)
(***************************************************************************)
EXTENDS Integers, Sequences, FiniteSets, TLC

VARIABLES
    overflow_checks,  \* build profile: TRUE = arithmetic overflow panics (debug),
                      \* FALSE = it wraps (release)
    base_cols,        \* compare_columns: argument `base`
    compare_cols,     \* compare_columns: argument `compare`
    col_diffs,        \* compare_columns: None before the call, Some(result) after
    base,             \* compare_schemas: argument `base` (a SchemaGraph);
                      \* compare_dumps: the schema of the base sandbox database
    compare,          \* the same for `compare`
    diff,             \* outcome of compare_schemas(base, compare), None before the call
    again,            \* outcome of a second run of compare_schemas(base, compare)
    swapped,          \* outcome of compare_schemas(compare, base)
    base_dump,        \* compare_dumps: the dumps row of base_id, None when there is none
    compare_dump,     \* the same for compare_id
    query_database,   \* compare_dumps: query.database
    connect_ok,       \* whether the sandbox server accepts connections
    base_checksum,    \* what calculate_table_checksum gives for each table of the
                      \* base sandbox database
    compare_checksum, \* the same for the compare sandbox database
    response,         \* what compare_dumps answered, None before the request
    pk_columns,       \* compare_table_data: what get_primary_key_columns gives
    all_columns,      \* compare_table_data: what get_table_columns gives
    base_data,        \* the rows of the table in the base sandbox database, in
                      \* the order that database hands them out
    compare_data,     \* the same for the compare sandbox database
    query_limit,      \* compare_table_data: query.limit
    data_response,    \* what compare_table_data answered, None before the request
    start_table,      \* find_related_tables: arguments `schema` and `table`, as a pair
    max_hops,         \* find_related_tables: argument `max_hops`
    related,          \* what find_related_tables(base, ..) returned, None before the call
    created_for,      \* find_sandbox_db_for_original: the original database each
                      \* entry of base_dump's sandbox_databases was restored from
    sandbox_db,       \* what find_sandbox_db_for_original returned, None before the call
    dump_status,      \* dumps.status of every row of the dumps table
    updated_order,    \* the rows of the dumps table, least recently updated first
    uploads,          \* per dump: upload_dump requests between their status check
                      \* and their UPDATE
    restores,         \* per dump: restore_dump requests between their status check
                      \* and their UPDATE
    requests_sent,    \* per dump: upload_dump and restore_dump requests received
    worker_pc,        \* where the worker loop of main stands
    jobs              \* the dump ids the worker fetched and has not processed yet

colVars    == <<base_cols, compare_cols, col_diffs>>
schemaVars == <<diff, again, swapped>>
dumpVars   == <<base_dump, compare_dump, query_database, connect_ok,
                base_checksum, compare_checksum, response>>
rowVars    == <<pk_columns, all_columns, base_data, compare_data, query_limit,
                data_response>>

relVars    == <<start_table, max_hops, related>>

lookupVars == <<created_for, sandbox_db>>

jobVars    == <<dump_status, updated_order, uploads, restores, requests_sent,
                worker_pc, jobs>>

vars == <<overflow_checks, base, compare, colVars, schemaVars, dumpVars, rowVars, relVars,
          lookupVars, jobVars>>

---------------------------------------------------------------------------
(* Bounds of the model *)

\* longest Vec<ColumnInfo> handed to compare_columns
MaxCols == 2
\* longest SchemaGraph.tables
MaxTables == 2
\* longest SchemaGraph.foreign_keys
MaxFks == 2
\* rows of a table
MaxRows == 3
MaxHops == 3
\* rows of the dumps table, and requests a client sends for one dump
MaxDumps == 2
MaxRequests == 3
\* the LIMIT of fetch_jobs_by_status, 10 in the code, scaled to the dumps table
job_batch_limit == 1
\* width of the scaled i64
I64Bits == 3
\* rows one checksum reads: "LIMIT 10000" in the query, scaled down like I64Bits
checksum_row_limit == 2

---------------------------------------------------------------------------
(* Option, strings, ordering *)

None == <<>>
Some(x) == <<x>>
IsSome(o) == o # <<>>
Unwrap(o) == o[1]

Range(s) == {s[i] : i \in DOMAIN s}

Perms(S) == {p \in [1..Cardinality(S) -> S] : Range(p) = S}

\* the elements of S in the order the permutation ord lists them
IterOrder(S, ord) == SelectSeq(ord, LAMBDA x : x \in S)

\* <str as Ord>::cmp: -1, 0, 1
StrCmp(a, b) ==
    LET n == IF Len(a) < Len(b) THEN Len(a) ELSE Len(b)
        d == {i \in 1..n : a[i] # b[i]}
    IN  IF d = {}
        THEN (IF Len(a) < Len(b) THEN -1 ELSE IF Len(a) > Len(b) THEN 1 ELSE 0)
        ELSE LET i == CHOOSE j \in d : \A k \in d : j <= k
             IN  IF a[i] < b[i] THEN -1 ELSE 1

\* Ord for a tuple of strings: the first differing component decides
KeyCmp(x, y) ==
    LET d == {i \in DOMAIN x : StrCmp(x[i], y[i]) # 0}
    IN  IF d = {} THEN 0
        ELSE LET i == CHOOSE j \in d : \A k \in d : j <= k
             IN  StrCmp(x[i], y[i])

\* slice::sort_by with the comparator a.key.cmp(b.key): a stable sort, here by
\* insertion (every stable sort gives the same sequence).  keyed is a sequence
\* of <<key, element>>.
RECURSIVE SortKeyed(_)
SortKeyed(keyed) ==
    IF keyed = <<>> THEN <<>>
    ELSE LET n      == Len(keyed)
             sorted == SortKeyed(SubSeq(keyed, 1, n - 1))
             x      == keyed[n]
             \* x goes behind every element that is not greater than it
             pos    == Cardinality({i \in DOMAIN sorted : KeyCmp(sorted[i][1], x[1]) <= 0})
         IN  SubSeq(sorted, 1, pos) \o <<x>> \o SubSeq(sorted, pos + 1, Len(sorted))

FoldLeft(Op(_, _), acc, seq) ==
    LET F[i \in 0..Len(seq)] == IF i = 0 THEN acc ELSE Op(F[i - 1], seq[i])
    IN  F[Len(seq)]

\* the string literals of the model, as bytes
S_id      == <<105, 100>>
S_email   == <<101, 109, 97, 105, 108>>
S_bigint  == <<98, 105, 103, 105, 110, 116>>
S_text    == <<116, 101, 120, 116>>
S_varchar == <<118, 97, 114, 99, 104, 97, 114>>
S_zero    == <<48>>
S_dot     == <<46>>
S_app     == <<97, 112, 112>>
S_public  == <<112, 117, 98, 108, 105, 99>>
S_users   == <<117, 115, 101, 114, 115>>
S_items   == <<105, 116, 101, 109, 115>>
S_orders  == <<111, 114, 100, 101, 114, 115>>
S_fk_a    == <<102, 107, 95, 97>>
S_fk_b    == <<102, 107, 95, 98>>

---------------------------------------------------------------------------
(* compare_columns *)

ChangeType == {"added", "removed", "modified"}

ColumnInfo(name, data_type, is_nullable, is_primary_key, default_value) ==
    [name |-> name, data_type |-> data_type, is_nullable |-> is_nullable,
     is_primary_key |-> is_primary_key, default_value |-> default_value]

\* impl From<&ColumnInfo> for ColumnDiffInfo
ColumnDiffInfo(col) ==
    [data_type |-> col.data_type, is_nullable |-> col.is_nullable,
     is_primary_key |-> col.is_primary_key, default_value |-> col.default_value]

ColumnDiff_swapped(column_name, change_type, base_info, compare_info) ==
    [column_name |-> column_name, change_type |-> change_type,
     base_info |-> compare_info, compare_info |-> base_info]

ColumnDiff(column_name, change_type, base_info, compare_info) ==
    [column_name |-> column_name, change_type |-> change_type,
     base_info |-> base_info, compare_info |-> compare_info]

\* iter().map(|c| (c.name.as_str(), c)).collect::<HashMap>(): a later entry
\* with the same key replaces the earlier one
NamesOf(cols) == {cols[i].name : i \in DOMAIN cols}
ColsByName(cols) ==
    [n \in NamesOf(cols) |->
        cols[CHOOSE i \in DOMAIN cols :
                /\ cols[i].name = n
                /\ \A j \in DOMAIN cols : cols[j].name = n => j <= i]]

is_column_modified_no_default(b, c) ==
    \/ b.data_type # c.data_type
    \/ b.is_nullable # c.is_nullable
    \/ b.is_primary_key # c.is_primary_key

is_column_modified(b, c) ==
    \/ b.data_type # c.data_type
    \/ b.is_nullable # c.is_nullable
    \/ b.is_primary_key # c.is_primary_key
    \/ b.default_value # c.default_value

sort_column_diffs(diffs) ==
    LET keyed == [i \in DOMAIN diffs |-> <<(<<diffs[i].column_name>>), diffs[i]>>]
        s     == SortKeyed(keyed)
    IN  [i \in DOMAIN s |-> s[i][2]]

\* ord: the iteration order of the three HashSet walks
compare_columns(b, c, ord) ==
    LET base_map      == ColsByName(b)
        compare_map   == ColsByName(c)
        base_names    == DOMAIN base_map
        compare_names == DOMAIN compare_map
        added_seq     == IterOrder(compare_names \ base_names, ord)
        removed_seq   == IterOrder(base_names \ compare_names, ord)
        common_seq    == IterOrder(base_names \cap compare_names, ord)
        added   == [i \in DOMAIN added_seq |->
                      ColumnDiff(compare_map[added_seq[i]].name, "added",
                                 None, Some(ColumnDiffInfo(compare_map[added_seq[i]])))]
        removed == [i \in DOMAIN removed_seq |->
                      ColumnDiff(base_map[removed_seq[i]].name, "removed",
                                 Some(ColumnDiffInfo(base_map[removed_seq[i]])), None)]
        changed == SelectSeq(common_seq,
                      LAMBDA n : is_column_modified(base_map[n], compare_map[n]))
        modified == [i \in DOMAIN changed |->
                      ColumnDiff(base_map[changed[i]].name, "modified",
                                 Some(ColumnDiffInfo(base_map[changed[i]])),
                                 Some(ColumnDiffInfo(compare_map[changed[i]])))]
    IN  sort_column_diffs(added \o removed \o modified)

---------------------------------------------------------------------------
(* i64 arithmetic *)

I64_MAX == 2 ^ (I64Bits - 1) - 1
I64_MIN == -(2 ^ (I64Bits - 1))

Overflows(r) == r < I64_MIN \/ r > I64_MAX

\* the two's complement value an unchecked +, - leaves
WrapI64(r) == ((r - I64_MIN) % (2 ^ I64Bits)) + I64_MIN

---------------------------------------------------------------------------
(* compare_schemas *)

TableInfo(schema_name, table_name, estimated_row_count, columns) ==
    [schema_name |-> schema_name, table_name |-> table_name,
     estimated_row_count |-> estimated_row_count, columns |-> columns]

ForeignKey(constraint_name, source_schema, source_table, source_columns, target_schema, target_table, target_columns, on_delete, on_update) ==
    [constraint_name |-> constraint_name,
     source_schema |-> source_schema, source_table |-> source_table,
     source_columns |-> source_columns,
     target_schema |-> target_schema, target_table |-> target_table,
     target_columns |-> target_columns,
     on_delete |-> on_delete, on_update |-> on_update]

SchemaGraph(tables, foreign_keys) == [tables |-> tables, foreign_keys |-> foreign_keys]

DiffSummaryDefault ==
    [tables_added |-> 0, tables_removed |-> 0, tables_modified |-> 0,
     columns_added |-> 0, columns_removed |-> 0, columns_modified |-> 0,
     fk_added |-> 0, fk_removed |-> 0, row_count_change |-> 0]

TableDiff(schema_name, table_name, change_type, base_row_count, compare_row_count, column_diffs, has_data_change) ==
    [schema_name |-> schema_name, table_name |-> table_name,
     change_type |-> change_type,
     base_row_count |-> base_row_count, compare_row_count |-> compare_row_count,
     column_diffs |-> column_diffs, has_data_change |-> has_data_change]

ForeignKeyDiff(constraint_name, change_type, source_table, target_table, fk_info) ==
    [constraint_name |-> constraint_name, change_type |-> change_type,
     source_table |-> source_table, target_table |-> target_table,
     fk_info |-> fk_info]

\* what a call leaves: a SchemaDiff, or nothing when it panicked
Returned(summary, table_diffs, fk_diffs) ==
    [panicked |-> FALSE, summary |-> summary,
     table_diffs |-> table_diffs, fk_diffs |-> fk_diffs]
Panicked ==
    [panicked |-> TRUE, summary |-> DiffSummaryDefault,
     table_diffs |-> <<>>, fk_diffs |-> <<>>]

TableKey(t) == <<t.schema_name, t.table_name>>
KeysOf(tables) == {TableKey(tables[i]) : i \in DOMAIN tables}
\* HashMap<(&str, &str), &TableInfo>: the last table of a key stays
TablesByKey(tables) ==
    [k \in KeysOf(tables) |->
        tables[CHOOSE i \in DOMAIN tables :
                  /\ TableKey(tables[i]) = k
                  /\ \A j \in DOMAIN tables : TableKey(tables[j]) = k => j <= i]]

FkNamesOf(fks) == {fks[i].constraint_name : i \in DOMAIN fks}
\* HashMap<&str, &ForeignKey>: the last foreign key of a name stays
FksByName(fks) ==
    [n \in FkNamesOf(fks) |->
        fks[CHOOSE i \in DOMAIN fks :
               /\ fks[i].constraint_name = n
               /\ \A j \in DOMAIN fks : fks[j].constraint_name = n => j <= i]]

\* format!("{}.{}", schema, table)
QualifiedName(schema, table) == schema \o S_dot \o table

CountKind_any(column_diffs, kind) == Len(column_diffs)

CountKind(column_diffs, kind) ==
    Cardinality({i \in DOMAIN column_diffs : column_diffs[i].change_type = kind})

added_table_step_no_columns(st, table) ==
    IF st.panicked THEN st
    ELSE LET r == st.summary.row_count_change + table.estimated_row_count
         IN  IF Overflows(r) /\ overflow_checks THEN Panicked
             ELSE [st EXCEPT
                     !.summary.tables_added = @ + 1,
                     !.summary.columns_added = @ + Len(table.columns),
                     !.summary.row_count_change = WrapI64(r),
                     !.table_diffs = Append(@,
                        TableDiff(table.schema_name, table.table_name, "added",
                                  None, Some(table.estimated_row_count), <<>>, TRUE))]

\* one pass of "for key in compare_keys.difference(&base_keys)"
added_table_step(st, table) ==
    IF st.panicked THEN st
    ELSE LET r == st.summary.row_count_change + table.estimated_row_count
         IN  IF Overflows(r) /\ overflow_checks THEN Panicked
             ELSE [st EXCEPT
                     !.summary.tables_added = @ + 1,
                     !.summary.columns_added = @ + Len(table.columns),
                     !.summary.row_count_change = WrapI64(r),
                     !.table_diffs = Append(@,
                        TableDiff(table.schema_name, table.table_name, "added",
                                  None, Some(table.estimated_row_count),
                                  [i \in DOMAIN table.columns |->
                                     ColumnDiff(table.columns[i].name, "added", None,
                                                Some(ColumnDiffInfo(table.columns[i])))],
                                  TRUE))]

\* one pass of "for key in base_keys.difference(&compare_keys)"
removed_table_step(st, table) ==
    IF st.panicked THEN st
    ELSE LET r == st.summary.row_count_change - table.estimated_row_count
         IN  IF Overflows(r) /\ overflow_checks THEN Panicked
             ELSE [st EXCEPT
                     !.summary.tables_removed = @ + 1,
                     !.summary.columns_removed = @ + Len(table.columns),
                     !.summary.row_count_change = WrapI64(r),
                     !.table_diffs = Append(@,
                        TableDiff(table.schema_name, table.table_name, "removed",
                                  Some(table.estimated_row_count), None,
                                  [i \in DOMAIN table.columns |->
                                     ColumnDiff(table.columns[i].name, "removed",
                                                Some(ColumnDiffInfo(table.columns[i])), None)],
                                  TRUE))]

skip_table_never(column_diffs, has_data_change) == FALSE

skip_table_schema_only(column_diffs, has_data_change) == column_diffs = <<>>

\* "if column_diffs.is_empty() && !has_data_change { continue; }"
skip_table(column_diffs, has_data_change) ==
    column_diffs = <<>> /\ ~has_data_change

counts_as_modified_always(column_diffs) == TRUE

\* "if !column_diffs.is_empty() { summary.tables_modified += 1; }"
counts_as_modified(column_diffs) == column_diffs # <<>>

\* the body of "for key in base_keys.intersection(&compare_keys)" behind
\* "let column_diffs = compare_columns(..)"; d is the exact value of
\* compare_table.estimated_row_count - base_table.estimated_row_count
common_table_diff(st, base_table, compare_table, column_diffs, d) ==
    LET row_diff == WrapI64(d)
        r        == st.summary.row_count_change + row_diff
        has_data_change == row_diff # 0
    IN  IF (Overflows(d) \/ Overflows(r)) /\ overflow_checks THEN Panicked
        ELSE [st EXCEPT
                !.summary.row_count_change = WrapI64(r),
                !.summary.columns_added = @ + CountKind(column_diffs, "added"),
                !.summary.columns_removed = @ + CountKind(column_diffs, "removed"),
                !.summary.columns_modified = @ + CountKind(column_diffs, "modified"),
                !.summary.tables_modified =
                    IF ~skip_table(column_diffs, has_data_change)
                       /\ counts_as_modified(column_diffs)
                    THEN @ + 1 ELSE @,
                !.table_diffs =
                    IF skip_table(column_diffs, has_data_change) THEN @
                    ELSE Append(@,
                        TableDiff(base_table.schema_name, base_table.table_name, "modified",
                                  Some(base_table.estimated_row_count),
                                  Some(compare_table.estimated_row_count),
                                  column_diffs, has_data_change))]

\* one pass of "for key in base_keys.intersection(&compare_keys)"
common_table_step(st, base_table, compare_table, cord) ==
    IF st.panicked THEN st
    ELSE common_table_diff(st, base_table, compare_table,
            compare_columns(base_table.columns, compare_table.columns, cord),
            compare_table.estimated_row_count - base_table.estimated_row_count)

added_fk_step_no_info(st, fk) ==
    IF st.panicked THEN st
    ELSE [st EXCEPT
            !.summary.fk_added = @ + 1,
            !.fk_diffs = Append(@,
               ForeignKeyDiff(fk.constraint_name, "added",
                              QualifiedName(fk.source_schema, fk.source_table),
                              QualifiedName(fk.target_schema, fk.target_table),
                              None))]

\* one pass of "for name in compare_fk_names.difference(&base_fk_names)"
added_fk_step(st, fk) ==
    IF st.panicked THEN st
    ELSE [st EXCEPT
            !.summary.fk_added = @ + 1,
            !.fk_diffs = Append(@,
               ForeignKeyDiff(fk.constraint_name, "added",
                              QualifiedName(fk.source_schema, fk.source_table),
                              QualifiedName(fk.target_schema, fk.target_table),
                              Some(fk)))]

\* one pass of "for name in base_fk_names.difference(&compare_fk_names)"
removed_fk_step(st, fk) ==
    IF st.panicked THEN st
    ELSE [st EXCEPT
            !.summary.fk_removed = @ + 1,
            !.fk_diffs = Append(@,
               ForeignKeyDiff(fk.constraint_name, "removed",
                              QualifiedName(fk.source_schema, fk.source_table),
                              QualifiedName(fk.target_schema, fk.target_table),
                              Some(fk)))]

\* table_diffs.sort_by(|a, b| (&a.schema_name, &a.table_name).cmp(..))
sort_table_diffs(diffs) ==
    LET keyed == [i \in DOMAIN diffs |->
                    <<(<<diffs[i].schema_name, diffs[i].table_name>>), diffs[i]>>]
        s     == SortKeyed(keyed)
    IN  [i \in DOMAIN s |-> s[i][2]]

\* fk_diffs.sort_by(|a, b| a.constraint_name.cmp(&b.constraint_name))
sort_fk_diffs(diffs) ==
    LET keyed == [i \in DOMAIN diffs |-> <<(<<diffs[i].constraint_name>>), diffs[i]>>]
        s     == SortKeyed(keyed)
    IN  [i \in DOMAIN s |-> s[i][2]]

\* the three loops over the table keys
diff_tables(st, base_tables, compare_tables, kord, cord) ==
    FoldLeft(LAMBDA s3, k : common_table_step(s3, base_tables[k], compare_tables[k], cord),
        FoldLeft(LAMBDA s2, k : removed_table_step(s2, base_tables[k]),
            FoldLeft(LAMBDA s1, k : added_table_step(s1, compare_tables[k]),
                st,
                IterOrder(DOMAIN compare_tables \ DOMAIN base_tables, kord)),
            IterOrder(DOMAIN base_tables \ DOMAIN compare_tables, kord)),
        IterOrder(DOMAIN base_tables \cap DOMAIN compare_tables, kord))

\* the two loops over the constraint names
diff_fks(st, base_fks, compare_fks, ford) ==
    FoldLeft(LAMBDA s2, n : removed_fk_step(s2, base_fks[n]),
        FoldLeft(LAMBDA s1, n : added_fk_step(s1, compare_fks[n]),
            st,
            IterOrder(DOMAIN compare_fks \ DOMAIN base_fks, ford)),
        IterOrder(DOMAIN base_fks \ DOMAIN compare_fks, ford))

\* the two sorts and the returned SchemaDiff
sorted_diff(st) ==
    IF st.panicked THEN Panicked
    ELSE Returned(st.summary, sort_table_diffs(st.table_diffs), sort_fk_diffs(st.fk_diffs))

\* kord, cord, ford: the iteration orders of the hash sets of table keys,
\* column names and constraint names
compare_schemas(b, c, kord, cord, ford) ==
    sorted_diff(
        diff_fks(
            diff_tables(Returned(DiffSummaryDefault, <<>>, <<>>),
                        TablesByKey(b.tables), TablesByKey(c.tables), kord, cord),
            FksByName(b.foreign_keys), FksByName(c.foreign_keys), ford))

---------------------------------------------------------------------------
(* compare_dumps *)

S_underscore == <<95>>
S_unknown    == <<117, 110, 107, 110, 111, 119, 110>>
S_shop       == <<115, 104, 111, 112>>
S_sandbox_1  == <<115, 97, 110, 100, 98, 111, 120, 95, 49>>
S_sandbox_2  == <<115, 97, 110, 100, 98, 111, 120, 95, 50>>

DumpRecord(status, sandbox_db_name, sandbox_databases) ==
    [status |-> status, sandbox_db_name |-> sandbox_db_name,
     sandbox_databases |-> sandbox_databases]

\* str::ends_with
EndsWith(str, suffix) ==
    /\ Len(suffix) <= Len(str)
    /\ SubSeq(str, Len(str) - Len(suffix) + 1, Len(str)) = suffix

\* Iterator::find: the first element that satisfies Test, as an Option
FindFirst(seq, Test(_)) ==
    IF \E i \in DOMAIN seq : Test(seq[i])
    THEN Some(seq[CHOOSE i \in DOMAIN seq :
                    Test(seq[i]) /\ \A j \in DOMAIN seq : Test(seq[j]) => i <= j])
    ELSE None

find_sandbox_db_for_original(dump, original_db_name) ==
    IF IsSome(dump.sandbox_databases)
    THEN FindFirst(Unwrap(dump.sandbox_databases),
                   LAMBDA db : \/ EndsWith(db, S_underscore \o original_db_name)
                               \/ db = original_db_name)
    ELSE None

\* Option::or
OptionOr(a, b) == IF IsSome(a) THEN a ELSE b

\* the sandbox database one side is read from; None makes the handler answer
\* BadRequest
select_sandbox_db(dump, database) ==
    IF IsSome(database)
    THEN OptionOr(find_sandbox_db_for_original(dump, Unwrap(database)),
                  dump.sandbox_db_name)
    ELSE OptionOr(dump.sandbox_db_name,
                  IF IsSome(dump.sandbox_databases)
                     /\ Unwrap(dump.sandbox_databases) # <<>>
                  THEN Some(Unwrap(dump.sandbox_databases)[1])
                  ELSE None)

\* Result<Option<String>, ApiError> of calculate_table_checksum
ChecksumOk(digest) == [ok |-> TRUE, checksum |-> Some(digest)]
ChecksumErr        == [ok |-> FALSE, checksum |-> None]

S_lparen == <<40>>
S_comma  == <<44>>
S_rparen == <<41>>

\* t::text, the text of a whole row: "(v1,v2,..)" in column order
row_text(row, columns) ==
    LET f[i \in 0..Len(columns)] ==
            IF i = 0 THEN <<>>
            ELSE f[i - 1] \o (IF i > 1 THEN S_comma ELSE <<>>) \o row[columns[i]]
    IN  S_lparen \o f[Len(columns)] \o S_rparen

\* md5 as a collision-free digest: the digest of a text is the text under a tag
md5(text) == [md5 |-> text]

\* "SELECT md5(t::text) as row_hash FROM t LIMIT 10000": the hashes of the
\* first rows of the scan, scan being the table in the order the scan returns it
row_hashes(scan, columns) ==
    [i \in 1..(IF Len(scan) < checksum_row_limit THEN Len(scan) ELSE checksum_row_limit) |->
        md5(row_text(scan[i], columns))]

\* string_agg(row_hash, '' ORDER BY row_hash): the hashes in ascending order,
\* end to end; the order of the hashed texts stands for the order of the
\* digests, and no row gives the empty string through COALESCE(.., '')
string_agg_sorted(hashes) ==
    LET keyed == [i \in DOMAIN hashes |-> <<(<<hashes[i].md5>>), hashes[i]>>]
        s     == SortKeyed(keyed)
    IN  [i \in DOMAIN s |-> s[i][2]]

\* the digest calculate_table_checksum returns when its query succeeds
table_checksum(scan, columns) == md5(string_agg_sorted(row_hashes(scan, columns)))

\* queried: whether the query succeeded
calculate_table_checksum(scan, columns, queried) ==
    IF queried THEN ChecksumOk(table_checksum(scan, columns)) ELSE ChecksumErr

tables_with_data_changes_all_or_nothing(b, c, bsum, csum) ==
    IF \E k \in KeysOf(b.tables) \cap KeysOf(c.tables) : ~bsum[k].ok \/ ~csum[k].ok
    THEN {}
    ELSE {k \in KeysOf(b.tables) \cap KeysOf(c.tables) : bsum[k].checksum # csum[k].checksum}

tables_with_data_changes_unchecked(b, c, bsum, csum) ==
    {k \in KeysOf(b.tables) \cap KeysOf(c.tables) :
        bsum[k].checksum # csum[k].checksum}

\* the tables the checksum loop inserts into tables_with_data_changes
tables_with_data_changes(b, c, bsum, csum) ==
    {k \in KeysOf(b.tables) \cap KeysOf(c.tables) :
        /\ bsum[k].ok /\ csum[k].ok
        /\ bsum[k].checksum # csum[k].checksum}

\* tables.iter().find(|t| ..key..).map(|t| t.estimated_row_count)
find_row_count(tables, k) ==
    IF k \in KeysOf(tables)
    THEN Some(tables[CHOOSE i \in DOMAIN tables :
                        /\ TableKey(tables[i]) = k
                        /\ \A j \in DOMAIN tables : TableKey(tables[j]) = k => i <= j]
                .estimated_row_count)
    ELSE None

\* "Update has_data_change flag for tables already in diff"
flag_data_changes(table_diffs, changed) ==
    [i \in DOMAIN table_diffs |->
        IF <<table_diffs[i].schema_name, table_diffs[i].table_name>> \in changed
        THEN [table_diffs[i] EXCEPT !.has_data_change = TRUE]
        ELSE table_diffs[i]]

data_only_diffs_none(new_keys, b, c) == <<>>

\* "Add tables with data-only changes (not in diff yet)"; new_keys in the
\* order the hash set gives them
data_only_diffs(new_keys, b, c) ==
    [i \in DOMAIN new_keys |->
        TableDiff(new_keys[i][1], new_keys[i][2], "modified",
                  find_row_count(b.tables, new_keys[i]),
                  find_row_count(c.tables, new_keys[i]),
                  <<>>, TRUE)]

\* the SchemaDiff after the checksum pass; pord is the iteration order of
\* tables_with_data_changes
enrich(d, b, c, changed, pord) ==
    [d EXCEPT !.table_diffs =
        flag_data_changes(@, changed)
        \o data_only_diffs(
              IterOrder(changed \ {<<d.table_diffs[i].schema_name,
                                     d.table_diffs[i].table_name>> :
                                       i \in DOMAIN d.table_diffs}, pord),
              b, c)]

Answer(kind, db_name, d) == [kind |-> kind, database_name |-> db_name, diff |-> d]
NoDiff == Returned(DiffSummaryDefault, <<>>, <<>>)

early_return_status_unchecked(bd, cd, database, connected) ==
    IF ~IsSome(bd) \/ ~IsSome(cd) THEN Some("NotFound")
    ELSE IF ~IsSome(select_sandbox_db(Unwrap(bd), database))
            \/ ~IsSome(select_sandbox_db(Unwrap(cd), database))
    THEN Some("BadRequest")
    ELSE IF ~connected THEN Some("Database")
    ELSE None

\* the early returns in front of "let mut diff = compare_schemas(..)"
early_return(bd, cd, database, connected) ==
    IF ~IsSome(bd) \/ ~IsSome(cd) THEN Some("NotFound")
    ELSE IF Unwrap(bd).status # "READY" \/ Unwrap(cd).status # "READY"
    THEN Some("BadRequest")
    ELSE IF ~IsSome(select_sandbox_db(Unwrap(bd), database))
            \/ ~IsSome(select_sandbox_db(Unwrap(cd), database))
    THEN Some("BadRequest")
    ELSE IF ~connected THEN Some("Database")
    ELSE None

reaches_compare_schemas(bd, cd, database, connected) ==
    early_return(bd, cd, database, connected) = None

\* the handler; d is the outcome of its compare_schemas call
compare_dumps(bd, cd, database, connected, b, c, bsum, csum, d, pord) ==
    IF IsSome(early_return(bd, cd, database, connected))
    THEN Answer(Unwrap(early_return(bd, cd, database, connected)), None, NoDiff)
    ELSE IF d.panicked THEN Answer("panic", None, NoDiff)
    ELSE Answer("Ok",
                Some(Unwrap(OptionOr(OptionOr(database, Unwrap(bd).sandbox_db_name),
                                     Some(S_unknown)))),
                enrich(d, b, c, tables_with_data_changes(b, c, bsum, csum), pord))

---------------------------------------------------------------------------
(* compare_table_data *)

\* a serde_json::Value is the bytes of its JSON text; a row (a JSON object) is
\* a function from column names to values
J_null == <<110, 117, 108, 108>>
J_1    == <<49>>
J_5    == <<53>>
J_x    == <<34, 120, 34>>
J_y    == <<34, 121, 34>>

S_name == <<110, 97, 109, 101>>
S_code == <<99, 111, 100, 101>>

default_sample_limit == 100
\* "query.limit.min(1000)"
limit_cap == 1000

RowDiff(pk, change_type, base_values, compare_values, changed_columns) ==
    [pk |-> pk, change_type |-> change_type,
     base_values |-> base_values, compare_values |-> compare_values,
     changed_columns |-> changed_columns]

\* serde_json::Map::get
JsonGet(obj, col) == IF col \in DOMAIN obj THEN Some(obj[col]) ELSE None

\* obj.get(c).cloned().unwrap_or(Value::Null)
JsonGetOrNull(obj, col) == IF col \in DOMAIN obj THEN obj[col] ELSE J_null

\* the key of one row: the value of the key column when there is one key
\* column, the array of the values of the key columns otherwise
key_value(obj, key_columns) ==
    IF Len(key_columns) = 1
    THEN JsonGetOrNull(obj, key_columns[1])
    ELSE [i \in DOMAIN key_columns |-> JsonGetOrNull(obj, key_columns[i])]

build_row_count_map_uncounted(rows, key_columns) ==
    [k \in {key_value(rows[i], key_columns) : i \in DOMAIN rows} |->
        [count |-> 1,
         row   |-> rows[CHOOSE i \in DOMAIN rows :
                          /\ key_value(rows[i], key_columns) = k
                          /\ \A j \in DOMAIN rows :
                                key_value(rows[j], key_columns) = k => i <= j]]]

\* key -> (count, sample_row): the sample is the first row of the key
build_row_count_map(rows, key_columns) ==
    [k \in {key_value(rows[i], key_columns) : i \in DOMAIN rows} |->
        [count |-> Cardinality({i \in DOMAIN rows : key_value(rows[i], key_columns) = k}),
         row   |-> rows[CHOOSE i \in DOMAIN rows :
                          /\ key_value(rows[i], key_columns) = k
                          /\ \A j \in DOMAIN rows :
                                key_value(rows[j], key_columns) = k => i <= j]]]

find_changed_columns_all(b, c, non_pk_columns) == non_pk_columns

find_changed_columns(b, c, non_pk_columns) ==
    SelectSeq(non_pk_columns, LAMBDA col : JsonGet(b, col) # JsonGet(c, col))

push_within_unbounded(rows, limit, row_diff) == Append(rows, row_diff)

\* "if rows.len() < limit { rows.push(..) }"
push_within(rows, limit, row_diff) ==
    IF Len(rows) < limit THEN Append(rows, row_diff) ELSE rows

\* rows and the three totals before the two loops
NoRowDiffs == [rows |-> <<>>, total_added |-> 0, total_removed |-> 0, total_modified |-> 0]

\* one pass of "for (key, (compare_count, compare_row)) in &compare_count_map"
added_row_step(st, key, base_count, compare_entry, limit) ==
    IF compare_entry.count > base_count
    THEN [st EXCEPT
            !.total_added = @ + (compare_entry.count - base_count),
            !.rows = push_within(@, limit,
                        RowDiff(key, "added", None, Some(compare_entry.row), <<>>))]
    ELSE st

fewer_rows_step_without_context(st, key, base_entry, compare_entry, limit) ==
    IF base_entry.count > compare_entry.count
    THEN [st EXCEPT
            !.total_removed = @ + (base_entry.count - compare_entry.count),
            !.rows = push_within(@, limit,
                        RowDiff(key, "removed", Some(base_entry.row), None, <<>>))]
    ELSE st

\* "if base_count > compare_count": some rows of the key are gone
fewer_rows_step(st, key, base_entry, compare_entry, limit) ==
    IF base_entry.count > compare_entry.count
    THEN [st EXCEPT
            !.total_removed = @ + (base_entry.count - compare_entry.count),
            !.rows = push_within(@, limit,
                        RowDiff(key, "removed", Some(base_entry.row),
                                Some(compare_entry.row), <<>>))]
    ELSE st

\* "if can_detect_modified && !non_pk_columns.is_empty()"
modified_row_step(st, key, base_row, compare_row, detect, changed_cols, limit) ==
    IF detect /\ changed_cols # <<>>
    THEN [st EXCEPT
            !.total_modified = @ + 1,
            !.rows = push_within(@, limit,
                        RowDiff(key, "modified", Some(base_row), Some(compare_row),
                                changed_cols))]
    ELSE st

\* "Key not in compare at all - all instances are removed"
gone_row_step(st, key, base_entry, limit) ==
    [st EXCEPT
        !.total_removed = @ + base_entry.count,
        !.rows = push_within(@, limit,
                    RowDiff(key, "removed", Some(base_entry.row), None, <<>>))]

\* one pass of "for (key, (base_count, base_row)) in &base_count_map"
base_row_step(st, key, base_map, compare_map, detect, non_pk_columns, limit) ==
    IF key \in DOMAIN compare_map
    THEN modified_row_step(
            fewer_rows_step(st, key, base_map[key], compare_map[key], limit),
            key, base_map[key].row, compare_map[key].row, detect,
            find_changed_columns(base_map[key].row, compare_map[key].row, non_pk_columns),
            limit)
    ELSE gone_row_step(st, key, base_map[key], limit)

\* the two loops; cord and bord are the iteration orders of the two hash maps
diff_row_maps(base_map, compare_map, detect, non_pk_columns, limit, bord, cord) ==
    FoldLeft(LAMBDA s2, k : base_row_step(s2, k, base_map, compare_map, detect,
                                          non_pk_columns, limit),
        FoldLeft(LAMBDA s1, k : added_row_step(s1, k,
                                    IF k \in DOMAIN base_map THEN base_map[k].count ELSE 0,
                                    compare_map[k], limit),
            NoRowDiffs,
            IterOrder(DOMAIN compare_map, cord)),
        IterOrder(DOMAIN base_map, bord))

Min(a, b) == IF a <= b THEN a ELSE b

\* "Without PK, fetch more rows for accurate comparison"
fetch_limit_without_pk == 10000

\* "If no primary key, use all columns as the key for comparison"
key_columns_of(pk, columns) == IF pk = <<>> THEN columns ELSE pk
can_detect_modified_of(pk) == pk # <<>>

sample_limit(requested) == Min(requested, limit_cap)

fetch_limit_of(pk, limit) ==
    IF can_detect_modified_of(pk) THEN limit * 3 ELSE fetch_limit_without_pk

non_pk_columns_of(pk, columns) ==
    SelectSeq(columns, LAMBDA c : c \notin Range(key_columns_of(pk, columns)))

\* SELECT row_to_json(t) FROM (SELECT <columns> FROM <table> LIMIT <limit>) t:
\* the first rows the database hands out, each cut down to the columns asked
fetch_table_rows(data, columns, limit) ==
    [i \in 1..Min(Len(data), limit) |->
        [c \in Range(columns) \cap DOMAIN data[i] |-> data[i][c]]]

TableDataAnswer(kind, key_columns, st, truncated) ==
    [kind |-> kind, primary_key_columns |-> key_columns,
     total_added |-> st.total_added, total_removed |-> st.total_removed,
     total_modified |-> st.total_modified, rows |-> st.rows, truncated |-> truncated]

\* the part of the handler behind the two fetches
diff_fetched_rows(base_rows, compare_rows, pk, columns, limit, bord, cord) ==
    diff_row_maps(build_row_count_map(base_rows, key_columns_of(pk, columns)),
                  build_row_count_map(compare_rows, key_columns_of(pk, columns)),
                  can_detect_modified_of(pk) /\ non_pk_columns_of(pk, columns) # <<>>,
                  non_pk_columns_of(pk, columns), limit, bord, cord)

table_data_response_strict(pk, columns, st, limit) ==
    TableDataAnswer("Ok", key_columns_of(pk, columns), st, Len(st.rows) > limit)

table_data_response(pk, columns, st, limit) ==
    TableDataAnswer("Ok", key_columns_of(pk, columns), st, Len(st.rows) >= limit)

\* the handler
compare_table_data(bd, cd, database, connected, pk, columns, bdata, cdata, requested, bord, cord) ==
    IF IsSome(early_return(bd, cd, database, connected))
    THEN TableDataAnswer(Unwrap(early_return(bd, cd, database, connected)),
                         <<>>, NoRowDiffs, FALSE)
    ELSE table_data_response(pk, columns,
            diff_fetched_rows(
                fetch_table_rows(bdata, columns, fetch_limit_of(pk, sample_limit(requested))),
                fetch_table_rows(cdata, columns, fetch_limit_of(pk, sample_limit(requested))),
                pk, columns, sample_limit(requested), bord, cord),
            sample_limit(requested))

---------------------------------------------------------------------------
(* find_related_tables *)

RelatedTable(schema, table, relationship, path, hop_count) ==
    [schema |-> schema, table |-> table, relationship |-> relationship,
     path |-> path, hop_count |-> hop_count]

SourceKey(fk) == <<fk.source_schema, fk.source_table>>
TargetKey(fk) == <<fk.target_schema, fk.target_table>>

\* outbound_fks.get(&key) and inbound_fks.get(&key): the foreign keys of the
\* table in the order of schema_graph.foreign_keys
outbound_fks(foreign_keys, key) == SelectSeq(foreign_keys, LAMBDA fk : SourceKey(fk) = key)
inbound_fks(foreign_keys, key)  == SelectSeq(foreign_keys, LAMBDA fk : TargetKey(fk) = key)

\* the body of either "for fk in fks" loop for one foreign key
follow_fk(st, fk, next_key, relationship, depth, path) ==
    IF next_key \in st.visited THEN st
    ELSE [visited |-> st.visited \cup {next_key},
          result  |-> Append(st.result,
                             RelatedTable(next_key[1], next_key[2], relationship,
                                          Append(path, fk.constraint_name), depth + 1)),
          queue   |-> Append(st.queue,
                             [key |-> next_key, depth |-> depth + 1,
                              path |-> Append(path, fk.constraint_name)])]

RECURSIVE follow_fks(_, _, _, _, _)
follow_fks(st, fks, outbound, depth, path) ==
    IF fks = <<>> THEN st
    ELSE follow_fks(follow_fk(st, Head(fks),
                              IF outbound THEN TargetKey(Head(fks)) ELSE SourceKey(Head(fks)),
                              IF outbound THEN "ReferencedBy" ELSE "References",
                              depth, path),
                    Tail(fks), outbound, depth, path)

\* one turn of "while let Some(..) = queue.pop()" with the element taken off
visit_table(st, foreign_keys, current, max) ==
    IF current.depth >= max THEN st
    ELSE follow_fks(follow_fks(st, outbound_fks(foreign_keys, current.key), TRUE,
                               current.depth, current.path),
                    inbound_fks(foreign_keys, current.key), FALSE,
                    current.depth, current.path)

\* Vec::pop takes the last element of queue
RECURSIVE related_loop(_, _, _)
related_loop(st, foreign_keys, max) ==
    IF st.queue = <<>> THEN st.result
    ELSE related_loop(visit_table([st EXCEPT !.queue = SubSeq(@, 1, Len(@) - 1)],
                                  foreign_keys, st.queue[Len(st.queue)], max),
                      foreign_keys, max)

find_related_tables(schema_graph, schema, table, max) ==
    related_loop([visited |-> {<<schema, table>>},
                  result  |-> <<>>,
                  queue   |-> <<[key |-> <<schema, table>>, depth |-> 0, path |-> <<>>]>>],
                 schema_graph.foreign_keys, max)

---------------------------------------------------------------------------
(* Inputs *)

SeqsUpTo(S, n) == UNION {[1..k -> S] : k \in 0..n}

C_id        == ColumnInfo(S_id, S_bigint, FALSE, TRUE, None)
C_email     == ColumnInfo(S_email, S_varchar, TRUE, FALSE, None)
C_email_ty  == ColumnInfo(S_email, S_text, TRUE, FALSE, None)
C_email_nn  == ColumnInfo(S_email, S_varchar, FALSE, FALSE, None)
C_email_pk  == ColumnInfo(S_email, S_varchar, TRUE, TRUE, None)
C_email_def == ColumnInfo(S_email, S_varchar, TRUE, FALSE, Some(S_zero))

ColumnPool == {C_id, C_email, C_email_ty, C_email_nn, C_email_pk, C_email_def}
ColumnVecs == SeqsUpTo(ColumnPool, MaxCols)

\* tables of two identities; ("app", "users") sorts before ("public", "orders")
\* although "orders" sorts before "users"
TablePool ==
    {TableInfo(S_app, S_users, 1, <<C_id>>),
     TableInfo(S_app, S_users, I64_MAX, <<C_id>>),
     TableInfo(S_app, S_users, 1, <<C_id, C_email>>),
     TableInfo(S_app, S_users, 1, <<C_email_ty>>),
     TableInfo(S_public, S_orders, I64_MAX, <<C_id>>)}
TableVecs == SeqsUpTo(TablePool, MaxTables)

FK_a     == ForeignKey(S_fk_a, S_public, S_orders, <<S_id>>,
                       S_app, S_users, <<S_id>>, "NoAction", "NoAction")
\* fk_a again with another on_delete action
FK_a_del == ForeignKey(S_fk_a, S_public, S_orders, <<S_id>>,
                       S_app, S_users, <<S_id>>, "Cascade", "NoAction")
\* a foreign key whose target table is in no TablePool snapshot
FK_b     == ForeignKey(S_fk_b, S_app, S_users, <<S_email>>,
                       S_public, S_users, <<S_email>>, "NoAction", "NoAction")
\* fk_b again with the endpoints exchanged
FK_b_rev == ForeignKey(S_fk_b, S_public, S_users, <<S_email>>,
                       S_app, S_users, <<S_email>>, "NoAction", "SetNull")

FkPool == {FK_a, FK_a_del, FK_b, FK_b_rev}
FkVecs == SeqsUpTo(FkPool, MaxFks)

\* the snapshots whose tables vary, and the snapshots whose foreign keys vary
TableGraphs == {SchemaGraph(t, <<FK_a>>) : t \in TableVecs}
FkGraphs    == {SchemaGraph(<<TableInfo(S_app, S_users, 1, <<C_id>>)>>, f) : f \in FkVecs}

\* the snapshots of three tables of one column whose row counts vary: the
\* first two are absent or hold -1, 0, 1 or I64_MAX rows (estimated_row_count
\* is any i64), the last is absent or holds I64_MAX rows
DriftKeys == <<(<<S_app, S_users>>), (<<S_public, S_items>>), (<<S_public, S_orders>>)>>
DriftCounts == {-1, 0, 1, I64_MAX}
DriftChoices(i) ==
    {None} \cup {Some(n) : n \in (IF i = Len(DriftKeys) THEN {I64_MAX} ELSE DriftCounts)}
DriftTables(rc) ==
    LET present == SelectSeq([i \in DOMAIN DriftKeys |-> <<i, rc[i]>>],
                             LAMBDA e : IsSome(e[2]))
    IN  [j \in DOMAIN present |->
            TableInfo(DriftKeys[present[j][1]][1], DriftKeys[present[j][1]][2],
                      Unwrap(present[j][2]), <<C_id>>)]
DriftGraphs ==
    {SchemaGraph(DriftTables(rc), <<>>) :
        rc \in {f \in [DOMAIN DriftKeys -> {None} \cup {Some(n) : n \in DriftCounts}] :
                   \A i \in DOMAIN DriftKeys : f[i] \in DriftChoices(i)}}

EmptyGraph == SchemaGraph(<<>>, <<>>)

---------------------------------------------------------------------------
(* compare_columns on its own *)

\* no sandbox database is looked up, and the dumps table is empty
NoLookup == created_for = <<>> /\ sandbox_db = None

NoWorker ==
    /\ dump_status = <<>> /\ updated_order = <<>>
    /\ uploads = <<>> /\ restores = <<>> /\ requests_sent = <<>>
    /\ worker_pc = "sleep" /\ jobs = <<>>

\* no table of rows is asked about
NoRelatedRequest == start_table = <<>> /\ max_hops = 0 /\ related = None

NoTableRequest ==
    /\ NoRelatedRequest
    /\ NoLookup /\ NoWorker
    /\ pk_columns = <<>> /\ all_columns = <<>>
    /\ base_data = <<>> /\ compare_data = <<>>
    /\ query_limit = default_sample_limit
    /\ data_response = None

NoRequest ==
    /\ base_dump = None /\ compare_dump = None /\ query_database = None
    /\ connect_ok = TRUE
    /\ base_checksum = <<>> /\ compare_checksum = <<>>
    /\ response = None
    /\ NoTableRequest

InitColumns ==
    /\ overflow_checks = FALSE
    /\ base_cols \in ColumnVecs
    /\ compare_cols \in ColumnVecs
    /\ col_diffs = None
    /\ base = EmptyGraph /\ compare = EmptyGraph
    /\ diff = None /\ again = None /\ swapped = None
    /\ NoRequest

CompareColumns ==
    /\ col_diffs = None
    /\ \E ord \in Perms(NamesOf(base_cols) \cup NamesOf(compare_cols)) :
          col_diffs' = Some(compare_columns(base_cols, compare_cols, ord))
    /\ UNCHANGED <<overflow_checks, base_cols, compare_cols, base, compare,
                   schemaVars, dumpVars, rowVars, relVars, lookupVars, jobVars>>

NextColumns == CompareColumns

SpecColumns == InitColumns /\ [][NextColumns]_vars

---------------------------------------------------------------------------
(* compare_schemas *)

Init ==
    /\ overflow_checks \in BOOLEAN
    /\ \/ base \in TableGraphs /\ compare \in TableGraphs
       \/ base \in FkGraphs /\ compare \in FkGraphs
       \/ base \in DriftGraphs /\ compare \in DriftGraphs
    /\ diff = None /\ again = None /\ swapped = None
    /\ base_cols = <<>> /\ compare_cols = <<>> /\ col_diffs = None
    /\ NoRequest

\* compare_schemas(b, c) under every iteration order of its hash sets
Outcomes(b, c) ==
    {compare_schemas(b, c, kord, cord, ford) :
        kord \in Perms(KeysOf(b.tables) \cup KeysOf(c.tables)),
        cord \in Perms({S_id, S_email}),
        ford \in Perms(FkNamesOf(b.foreign_keys) \cup FkNamesOf(c.foreign_keys))}

\* compare_schemas(&base, &compare)
Compare ==
    /\ diff = None
    /\ \E r \in Outcomes(base, compare) : diff' = Some(r)
    /\ UNCHANGED <<overflow_checks, base, compare, colVars, again, swapped, dumpVars, rowVars, relVars, lookupVars, jobVars>>

\* the same call once more: the hash sets may iterate in another order
CompareAgain ==
    /\ diff # None /\ again = None
    /\ \E r \in Outcomes(base, compare) : again' = Some(r)
    /\ UNCHANGED <<overflow_checks, base, compare, colVars, diff, swapped, dumpVars, rowVars, relVars, lookupVars, jobVars>>

\* compare_schemas(&compare, &base)
CompareSwapped ==
    /\ again # None /\ swapped = None
    /\ \E r \in Outcomes(compare, base) : swapped' = Some(r)
    /\ UNCHANGED <<overflow_checks, base, compare, colVars, diff, again, dumpVars, rowVars, relVars, lookupVars, jobVars>>

Next == Compare \/ CompareAgain \/ CompareSwapped

Spec == Init /\ [][Next]_vars

---------------------------------------------------------------------------
(* compare_dumps *)

\* what load_schema_graph reads: pg_stat_user_tables has one row per table,
\* ordered by (schemaname, relname), with n_live_tup >= 0
IsCatalog(tables) ==
    /\ \A i \in DOMAIN tables : tables[i].estimated_row_count >= 0
    /\ \A i, j \in DOMAIN tables :
          i < j => KeyCmp(TableKey(tables[i]), TableKey(tables[j])) < 0

SandboxGraphs ==
    {SchemaGraph(t, f) : t \in {v \in TableVecs : IsCatalog(v)},
                         f \in {<<>>, <<FK_a>>}}

ChecksumResults == {ChecksumOk("d1"), ChecksumOk("d2"), ChecksumErr}

R_ready     == DumpRecord("READY", Some(S_sandbox_1), None)
R_ready_2   == DumpRecord("READY", Some(S_sandbox_2), None)
R_dumpall   == DumpRecord("READY", None,
                          Some(<<S_sandbox_1 \o S_underscore \o S_shop>>))
R_no_db     == DumpRecord("READY", None, None)
R_restoring == DumpRecord("RESTORING", None, None)
R_error     == DumpRecord("ERROR", Some(S_sandbox_1), None)

DumpRows == {None, Some(R_ready), Some(R_dumpall), Some(R_no_db),
             Some(R_restoring), Some(R_error)}

InitDumps ==
    /\ overflow_checks \in BOOLEAN
    /\ base \in SandboxGraphs
    /\ compare \in SandboxGraphs
    /\ \/ \* two restored dumps whose tables and contents vary
          /\ base_dump = Some(R_ready) /\ compare_dump = Some(R_ready_2)
          /\ query_database = None
          /\ connect_ok = TRUE
          /\ base_checksum \in
                [KeysOf(base.tables) \cap KeysOf(compare.tables) -> ChecksumResults]
          /\ compare_checksum \in
                [KeysOf(base.tables) \cap KeysOf(compare.tables) -> ChecksumResults]
       \/ \* dumps rows, selections and connections of every kind
          /\ base.foreign_keys = <<>> /\ compare.foreign_keys = <<>>
          /\ Len(base.tables) = 1 /\ Len(compare.tables) = 1
          /\ base_dump \in DumpRows
          /\ compare_dump \in DumpRows
          /\ query_database \in {None, Some(S_shop)}
          /\ connect_ok \in BOOLEAN
          /\ base_checksum =
                [k \in KeysOf(base.tables) \cap KeysOf(compare.tables) |-> ChecksumOk("d1")]
          /\ compare_checksum =
                [k \in KeysOf(base.tables) \cap KeysOf(compare.tables) |-> ChecksumOk("d2")]
    /\ response = None
    /\ diff = None /\ again = None /\ swapped = None
    /\ base_cols = <<>> /\ compare_cols = <<>> /\ col_diffs = None
    /\ NoTableRequest

\* GET /api/dumps/:base_id/compare/:compare_id; diff keeps what the handler's
\* own compare_schemas call gave, when the handler got that far
CompareDumps ==
    /\ response = None
    /\ \E d \in Outcomes(base, compare),
          pord \in Perms(KeysOf(base.tables) \cap KeysOf(compare.tables)) :
          /\ response' = Some(compare_dumps(base_dump, compare_dump, query_database,
                                            connect_ok, base, compare,
                                            base_checksum, compare_checksum, d, pord))
          /\ diff' = IF reaches_compare_schemas(base_dump, compare_dump,
                                                query_database, connect_ok)
                     THEN Some(d) ELSE None
    /\ UNCHANGED <<overflow_checks, base, compare, colVars, again, swapped,
                   base_dump, compare_dump, query_database, connect_ok,
                   base_checksum, compare_checksum, rowVars, relVars, lookupVars, jobVars>>

NextDumps == CompareDumps

SpecDumps == InitDumps /\ [][NextDumps]_vars

---------------------------------------------------------------------------
(* compare_table_data *)

Row(id, name) == [c \in {S_id, S_name} |-> IF c = S_id THEN id ELSE name]
RowSeq  == <<Row(J_1, J_x), Row(J_1, J_y), Row(J_5, J_x)>>
RowPool == Range(RowSeq)
DataVecs == SeqsUpTo(RowPool, MaxRows)

\* what get_primary_key_columns can give for a table of columns id and name:
\* the primary key id, no primary key, the primary key (id, name), and the
\* primary key id followed by a column of another table whose constraint has
\* the same name (the query joins key_column_usage on constraint name and
\* schema, not on the table)
PkChoices == {<<S_id>>, <<>>, <<S_id, S_name>>, <<S_id, S_code>>}

\* a primary key of the base table lets no two of its rows share a key
RespectsPk(data, pk) ==
    \A i, j \in DOMAIN data : i < j => key_value(data[i], pk) # key_value(data[j], pk)

PoolIndex(row) == CHOOSE i \in DOMAIN RowSeq : RowSeq[i] = row
InPoolOrder(data) == \A i, j \in DOMAIN data : i < j => PoolIndex(data[i]) <= PoolIndex(data[j])

\* four rows under the primary key (id, name), and what the compare database
\* may hold and hand out in their place
LongTable == <<Row(J_1, J_x), Row(J_1, J_y), Row(J_5, J_x), Row(J_5, J_y)>>
LongTableScans ==
    {LongTable,
     <<Row(J_5, J_y), Row(J_5, J_x), Row(J_1, J_y), Row(J_1, J_x)>>,
     <<Row(J_5, J_y), Row(J_1, J_x)>>,
     <<>>}

SampleLimits == {0, 1, 2, limit_cap + 1}

InitRows ==
    /\ overflow_checks = FALSE
    /\ base = EmptyGraph /\ compare = EmptyGraph
    /\ diff = None /\ again = None /\ swapped = None
    /\ base_cols = <<>> /\ compare_cols = <<>> /\ col_diffs = None
    /\ base_checksum = <<>> /\ compare_checksum = <<>>
    /\ response = None
    /\ all_columns = <<S_id, S_name>>
    /\ \/ \* two restored dumps whose rows vary
          /\ base_dump = Some(R_ready) /\ compare_dump = Some(R_ready_2)
          /\ query_database = None
          /\ connect_ok = TRUE
          /\ pk_columns \in PkChoices
          /\ query_limit \in SampleLimits
          /\ base_data \in {d \in DataVecs : pk_columns # <<>> => RespectsPk(d, pk_columns)}
          /\ compare_data \in DataVecs
          \* without a primary key every row is fetched and keyed by all its
          \* columns, so the order of the rows does not reach the response:
          \* one order per table content is enough
          /\ pk_columns = <<>> => (InPoolOrder(base_data) /\ InPoolOrder(compare_data))
       \/ \* a table with more rows than a request with limit 1 fetches
          /\ base_dump = Some(R_ready) /\ compare_dump = Some(R_ready_2)
          /\ query_database = None
          /\ connect_ok = TRUE
          /\ pk_columns = <<S_id, S_name>>
          /\ query_limit \in SampleLimits
          /\ base_data = LongTable
          /\ compare_data \in LongTableScans
       \/ \* dumps rows, selections and connections of every kind
          /\ base_dump \in DumpRows
          /\ compare_dump \in DumpRows
          /\ query_database \in {None, Some(S_shop)}
          /\ connect_ok \in BOOLEAN
          /\ pk_columns = <<S_id>>
          /\ base_data = <<Row(J_5, J_x)>>
          /\ compare_data = <<Row(J_5, J_y)>>
          /\ query_limit = default_sample_limit
    /\ data_response = None
    /\ NoRelatedRequest
    /\ NoLookup /\ NoWorker

\* the keys either hash map can hold
RowKeys(data) ==
    {key_value(data[i], key_columns_of(pk_columns, all_columns)) : i \in DOMAIN data}

\* GET /api/dumps/:base_id/compare/:compare_id/table/:schema/:table
CompareTableData ==
    /\ data_response = None
    /\ \E bord \in Perms(RowKeys(base_data)), cord \in Perms(RowKeys(compare_data)) :
          data_response' = Some(compare_table_data(base_dump, compare_dump, query_database,
                                    connect_ok, pk_columns, all_columns,
                                    base_data, compare_data, query_limit, bord, cord))
    /\ UNCHANGED <<overflow_checks, base, compare, colVars, schemaVars, dumpVars,
                   pk_columns, all_columns, base_data, compare_data, query_limit, relVars, lookupVars, jobVars>>

NextRows == CompareTableData

SpecRows == InitRows /\ [][NextRows]_vars

---------------------------------------------------------------------------
(* The checksum gate on one common table *)

ItemsGraph ==
    SchemaGraph(<<TableInfo(S_public, S_items, 1,
                            <<C_id, ColumnInfo(S_name, S_text, TRUE, FALSE, None)>>)>>, <<>>)
ItemsKey   == <<S_public, S_items>>

\* base_data and compare_data: the table in either sandbox, in scan order
InitChecksums ==
    /\ overflow_checks = FALSE
    /\ base = ItemsGraph /\ compare = ItemsGraph
    /\ diff = None /\ again = None /\ swapped = None
    /\ base_cols = <<>> /\ compare_cols = <<>> /\ col_diffs = None
    /\ base_dump = Some(R_ready) /\ compare_dump = Some(R_ready_2)
    /\ query_database = None
    /\ connect_ok = TRUE
    /\ base_checksum = <<>> /\ compare_checksum = <<>>
    /\ response = None
    /\ pk_columns = <<>>
    /\ all_columns = <<S_id, S_name>>
    /\ base_data \in DataVecs
    /\ compare_data \in DataVecs
    /\ query_limit = default_sample_limit
    /\ data_response = None
    /\ NoRelatedRequest
    /\ NoLookup /\ NoWorker

\* one turn of the checksum loop: both checksums of the table
CalculateChecksums ==
    /\ base_checksum = <<>>
    /\ \E bq \in BOOLEAN, cq \in BOOLEAN :
          /\ base_checksum' =
                [k \in {ItemsKey} |-> calculate_table_checksum(base_data, all_columns, bq)]
          /\ compare_checksum' =
                [k \in {ItemsKey} |-> calculate_table_checksum(compare_data, all_columns, cq)]
    /\ UNCHANGED <<overflow_checks, base, compare, colVars, schemaVars,
                   base_dump, compare_dump, query_database, connect_ok, response, rowVars, relVars, lookupVars, jobVars>>

NextChecksums == CalculateChecksums

SpecChecksums == InitChecksums /\ [][NextChecksums]_vars

---------------------------------------------------------------------------
(* Both handlers on the same pair of dumps *)

InitHandlers ==
    /\ overflow_checks = FALSE
    /\ base = ItemsGraph /\ compare = ItemsGraph
    /\ diff = None /\ again = None /\ swapped = None
    /\ base_cols = <<>> /\ compare_cols = <<>> /\ col_diffs = None
    /\ base_dump \in DumpRows
    /\ compare_dump \in DumpRows
    /\ query_database \in {None, Some(S_shop)}
    /\ connect_ok \in BOOLEAN
    /\ base_checksum = [k \in {ItemsKey} |-> ChecksumOk("d1")]
    /\ compare_checksum = [k \in {ItemsKey} |-> ChecksumOk("d2")]
    /\ response = None
    /\ pk_columns = <<S_id>>
    /\ all_columns = <<S_id, S_name>>
    /\ base_data = <<Row(J_5, J_x)>>
    /\ compare_data = <<Row(J_5, J_y)>>
    /\ query_limit = default_sample_limit
    /\ data_response = None
    /\ NoRelatedRequest
    /\ NoLookup /\ NoWorker

NextHandlers == CompareDumps \/ CompareTableData

SpecHandlers == InitHandlers /\ [][NextHandlers]_vars

---------------------------------------------------------------------------
(* find_related_tables on a schema of six tables *)

S_carts == <<99, 97, 114, 116, 115>>
S_tags  == <<116, 97, 103, 115>>
S_notes == <<110, 111, 116, 101, 115>>
S_fk    == <<102, 107>>

RelatedNames == <<S_users, S_orders, S_items, S_carts, S_tags, S_notes>>
RelatedTables == [i \in DOMAIN RelatedNames |-> TableInfo(S_public, RelatedNames[i], 0, <<C_id>>)]

\* the foreign key from table number i to table number j
Fk(i, j) ==
    ForeignKey(S_fk \o S_underscore \o RelatedNames[i] \o S_underscore \o RelatedNames[j],
               S_public, RelatedNames[i], <<S_id>>,
               S_public, RelatedNames[j], <<S_id>>, "NoAction", "NoAction")

\* orders and items reference users, carts references items, tags references
\* carts and orders, notes references tags, and users references itself
RelatedFks == <<Fk(2, 1), Fk(3, 1), Fk(4, 3), Fk(5, 4), Fk(5, 2), Fk(6, 5), Fk(1, 1)>>

Reverse(seq) == [i \in DOMAIN seq |-> seq[Len(seq) + 1 - i]]
\* the foreign keys of RelatedFks picked by a set of places, in catalog order
PickFks(places) == SelectSeq(RelatedFks, LAMBDA fk : \E i \in places : RelatedFks[i] = fk)

InitRelated ==
    /\ overflow_checks = FALSE
    /\ \E places \in SUBSET DOMAIN RelatedFks :
          base \in {SchemaGraph(RelatedTables, PickFks(places)),
                    SchemaGraph(RelatedTables, Reverse(PickFks(places)))}
    /\ compare = EmptyGraph
    /\ diff = None /\ again = None /\ swapped = None
    /\ base_cols = <<>> /\ compare_cols = <<>> /\ col_diffs = None
    /\ base_dump = None /\ compare_dump = None /\ query_database = None
    /\ connect_ok = TRUE
    /\ base_checksum = <<>> /\ compare_checksum = <<>>
    /\ response = None
    /\ pk_columns = <<>> /\ all_columns = <<>>
    /\ base_data = <<>> /\ compare_data = <<>>
    /\ query_limit = default_sample_limit
    /\ data_response = None
    /\ start_table \in {<<S_public, S_users>>, <<S_public, S_tags>>}
    /\ max_hops \in 0..MaxHops
    /\ related = None
    /\ NoLookup /\ NoWorker

FindRelatedTables ==
    /\ related = None
    /\ related' = Some(find_related_tables(base, start_table[1], start_table[2], max_hops))
    /\ UNCHANGED <<overflow_checks, base, compare, colVars, schemaVars, dumpVars, rowVars,
                   start_table, max_hops, lookupVars, jobVars>>

NextRelated == FindRelatedTables

SpecRelated == InitRelated /\ [][NextRelated]_vars

---------------------------------------------------------------------------
(* find_sandbox_db_for_original on the sandbox_databases of one dump *)

S_my_shop == <<109, 121, 95, 115, 104, 111, 112>>

OriginalNames == {S_shop, S_my_shop, S_app}

\* the name a database of a pg_dumpall dump is restored under:
\* sandbox_{dump_id}_{original_db_name}, or the original name in the old format
sandbox_name(prefix, original_db_name, old_format) ==
    IF old_format THEN original_db_name
    ELSE prefix \o S_underscore \o original_db_name

\* the databases of one dump, in every order, each in either format
OriginalLists == UNION {Perms(names) : names \in SUBSET OriginalNames}

InitSandbox ==
    /\ overflow_checks = FALSE
    /\ base = EmptyGraph /\ compare = EmptyGraph
    /\ diff = None /\ again = None /\ swapped = None
    /\ base_cols = <<>> /\ compare_cols = <<>> /\ col_diffs = None
    /\ created_for \in OriginalLists
    /\ \E old \in [DOMAIN created_for -> BOOLEAN], listed \in BOOLEAN :
          base_dump =
             Some(DumpRecord("READY", None,
                    IF listed \/ created_for # <<>>
                    THEN Some([i \in DOMAIN created_for |->
                                 sandbox_name(S_sandbox_1, created_for[i], old[i])])
                    ELSE None))
    /\ compare_dump = None
    /\ query_database \in {Some(n) : n \in OriginalNames}
    /\ connect_ok = TRUE
    /\ base_checksum = <<>> /\ compare_checksum = <<>>
    /\ response = None
    /\ pk_columns = <<>> /\ all_columns = <<>>
    /\ base_data = <<>> /\ compare_data = <<>>
    /\ query_limit = default_sample_limit
    /\ data_response = None
    /\ start_table = <<>> /\ max_hops = 0 /\ related = None
    /\ sandbox_db = None
    /\ NoWorker

FindSandboxDb ==
    /\ sandbox_db = None
    /\ sandbox_db' = Some(find_sandbox_db_for_original(Unwrap(base_dump),
                                                       Unwrap(query_database)))
    /\ UNCHANGED <<overflow_checks, base, compare, colVars, schemaVars, dumpVars, rowVars,
                   relVars, created_for, jobVars>>

NextSandbox == FindSandboxDb

SpecSandbox == InitSandbox /\ [][NextSandbox]_vars

---------------------------------------------------------------------------
(* upload_dump, restore_dump and the worker loop on one dumps table *)

Dumps == 1..MaxDumps

\* DumpStatus::as_str
S_CREATED   == "CREATED"
S_UPLOADED  == "UPLOADED"
S_RESTORING == "RESTORING"
S_ANALYZING == "ANALYZING"
S_READY     == "READY"
S_ERROR     == "ERROR"

\* UPDATE dumps SET status = .., updated_at = now WHERE id = .. : the row takes
\* the status whatever status it had, and becomes the most recently updated
set_status(statuses, id, status) == [statuses EXCEPT ![id] = status]

touch(order, id) == SelectSeq(order, LAMBDA d : d # id) \o <<id>>

\* SELECT id FROM dumps WHERE status = $1 ORDER BY updated_at ASC LIMIT 10
fetch_jobs_by_status(statuses, order, status) ==
    LET rows == SelectSeq(order, LAMBDA d : statuses[d] = status)
    IN SubSeq(rows, 1, Min(job_batch_limit, Len(rows)))

\* the dumps table after create_dump for every dump, nothing in flight, the
\* worker before its first pass
InitStatus ==
    /\ overflow_checks = FALSE
    /\ base = EmptyGraph /\ compare = EmptyGraph
    /\ diff = None /\ again = None /\ swapped = None
    /\ base_cols = <<>> /\ compare_cols = <<>> /\ col_diffs = None
    /\ base_dump = None /\ compare_dump = None /\ query_database = None
    /\ connect_ok = TRUE
    /\ base_checksum = <<>> /\ compare_checksum = <<>>
    /\ response = None
    /\ pk_columns = <<>> /\ all_columns = <<>>
    /\ base_data = <<>> /\ compare_data = <<>>
    /\ query_limit = default_sample_limit
    /\ data_response = None
    /\ start_table = <<>> /\ max_hops = 0 /\ related = None
    /\ NoLookup
    /\ dump_status = [d \in Dumps |-> S_CREATED]
    /\ updated_order = [d \in Dumps |-> d]
    /\ uploads = [d \in Dumps |-> 0]
    /\ restores = [d \in Dumps |-> 0]
    /\ requests_sent = [d \in Dumps |-> 0]
    /\ worker_pc = "sleep"
    /\ jobs = <<>>

otherVars == <<overflow_checks, base, compare, colVars, schemaVars, dumpVars, rowVars,
               relVars, lookupVars>>

\* upload_dump up to its status check: BadRequest unless the dump is CREATED
UploadCheck(id) ==
    /\ requests_sent[id] < MaxRequests
    /\ requests_sent' = [requests_sent EXCEPT ![id] = @ + 1]
    /\ uploads' = IF dump_status[id] = S_CREATED
                  THEN [uploads EXCEPT ![id] = @ + 1] ELSE uploads
    /\ UNCHANGED <<dump_status, updated_order, restores, worker_pc, jobs, otherVars>>

\* the rest of upload_dump: the file is stored, which can fail, and then the
\* row is updated
UploadWrite(id) ==
    /\ uploads[id] > 0
    /\ uploads' = [uploads EXCEPT ![id] = @ - 1]
    /\ \E stored \in BOOLEAN :
          IF stored
          THEN /\ dump_status' = set_status(dump_status, id, S_UPLOADED)
               /\ updated_order' = touch(updated_order, id)
          ELSE UNCHANGED <<dump_status, updated_order>>
    /\ UNCHANGED <<restores, requests_sent, worker_pc, jobs, otherVars>>

\* restore_dump up to its status check: BadRequest unless the dump is UPLOADED
RestoreCheck(id) ==
    /\ requests_sent[id] < MaxRequests
    /\ requests_sent' = [requests_sent EXCEPT ![id] = @ + 1]
    /\ restores' = IF dump_status[id] = S_UPLOADED
                   THEN [restores EXCEPT ![id] = @ + 1] ELSE restores
    /\ UNCHANGED <<dump_status, updated_order, uploads, worker_pc, jobs, otherVars>>

\* the rest of restore_dump
RestoreWrite(id) ==
    /\ restores[id] > 0
    /\ restores' = [restores EXCEPT ![id] = @ - 1]
    /\ dump_status' = set_status(dump_status, id, S_RESTORING)
    /\ updated_order' = touch(updated_order, id)
    /\ UNCHANGED <<uploads, requests_sent, worker_pc, jobs, otherVars>>

\* process_pending_jobs begins: the RESTORING jobs of this pass
FetchRestoring ==
    /\ worker_pc = "sleep"
    /\ jobs' = fetch_jobs_by_status(dump_status, updated_order, S_RESTORING)
    /\ worker_pc' = "restoring"
    /\ UNCHANGED <<dump_status, updated_order, uploads, restores, requests_sent, otherVars>>

\* one turn of a job loop: process_restore or process_analysis on the next
\* fetched dump, which writes `done` when it succeeds; mark_error when it fails
process_job(done) ==
    /\ jobs # <<>>
    /\ \E ok \in BOOLEAN :
          dump_status' = set_status(dump_status, Head(jobs), IF ok THEN done ELSE S_ERROR)
    /\ updated_order' = touch(updated_order, Head(jobs))
    /\ jobs' = Tail(jobs)
    /\ UNCHANGED <<uploads, restores, requests_sent, worker_pc, otherVars>>

ProcessRestore == worker_pc = "restoring" /\ process_job(S_ANALYZING)

\* the RESTORING jobs are done: the ANALYZING jobs of this pass
FetchAnalyzing ==
    /\ worker_pc = "restoring" /\ jobs = <<>>
    /\ jobs' = fetch_jobs_by_status(dump_status, updated_order, S_ANALYZING)
    /\ worker_pc' = "analyzing"
    /\ UNCHANGED <<dump_status, updated_order, uploads, restores, requests_sent, otherVars>>

ProcessAnalysis == worker_pc = "analyzing" /\ process_job(S_READY)

\* the pass is over; main sleeps until the next poll
Sleep ==
    /\ worker_pc = "analyzing" /\ jobs = <<>>
    /\ worker_pc' = "sleep"
    /\ UNCHANGED <<dump_status, updated_order, uploads, restores, requests_sent, jobs,
                   otherVars>>

WorkerStep ==
    FetchRestoring \/ ProcessRestore \/ FetchAnalyzing \/ ProcessAnalysis \/ Sleep

NextStatus ==
    \/ \E id \in Dumps : UploadCheck(id)
    \/ \E id \in Dumps : UploadWrite(id)
    \/ \E id \in Dumps : RestoreCheck(id)
    \/ \E id \in Dumps : RestoreWrite(id)
    \/ WorkerStep

SpecStatus == InitStatus /\ [][NextStatus]_vars

\* the loop of main never ends and nothing in it blocks for ever
SpecWorker == SpecStatus /\ WF_vars(WorkerStep)

---------------------------------------------------------------------------
(* Properties of compare_schemas *)

IsReturned(o) == IsSome(o) /\ ~Unwrap(o).panicked

DiffKey(td) == <<td.schema_name, td.table_name>>
\* the places of table_diffs that carry table k
DiffsOf(d, k) == {i \in DOMAIN d.table_diffs : DiffKey(d.table_diffs[i]) = k}
FkDiffsOf(d, n) == {i \in DOMAIN d.fk_diffs : d.fk_diffs[i].constraint_name = n}

BaseTables    == TablesByKey(base.tables)
CompareTables == TablesByKey(compare.tables)
OnlyInCompare == DOMAIN CompareTables \ DOMAIN BaseTables
OnlyInBase    == DOMAIN BaseTables \ DOMAIN CompareTables
InBoth        == DOMAIN BaseTables \cap DOMAIN CompareTables

RECURSIVE SumOver(_, _)
SumOver(S, f) ==
    IF S = {} THEN 0
    ELSE LET x == CHOOSE y \in S : TRUE IN f[x] + SumOver(S \ {x}, f)

\* C1: compare_schemas(S, S) returns no table diff, no foreign key diff and a
\* summary whose counters, row_count_change included, are all zero.
C1_Idempotent ==
    (IsSome(diff) /\ base = compare) =>
        Unwrap(diff) = Returned(DiffSummaryDefault, <<>>, <<>>)

C1_Witness ==
    /\ IsSome(diff) /\ base = compare
    /\ Len(base.tables) = 2 /\ base.foreign_keys # <<>>
    /\ base.tables[1].estimated_row_count = I64_MAX

\* C2: the added counters of compare_schemas(A, B) are the removed counters of
\* compare_schemas(B, A), and row_count_change is negated.
C2_Symmetric ==
    (IsReturned(diff) /\ IsReturned(swapped)) =>
        LET ab == Unwrap(diff).summary
            ba == Unwrap(swapped).summary
        IN  /\ ab.tables_added = ba.tables_removed
            /\ ab.columns_added = ba.columns_removed
            /\ ab.fk_added = ba.fk_removed
            /\ ab.row_count_change = -ba.row_count_change

\* what is left of C2: every counter pair mirrors, and the two row_count_change
\* cancel in 64-bit arithmetic
C2_CountersMirror ==
    (IsReturned(diff) /\ IsReturned(swapped)) =>
        LET ab == Unwrap(diff).summary
            ba == Unwrap(swapped).summary
        IN  /\ ab.tables_added = ba.tables_removed
            /\ ab.tables_removed = ba.tables_added
            /\ ab.tables_modified = ba.tables_modified
            /\ ab.columns_added = ba.columns_removed
            /\ ab.columns_removed = ba.columns_added
            /\ ab.columns_modified = ba.columns_modified
            /\ ab.fk_added = ba.fk_removed
            /\ ab.fk_removed = ba.fk_added
            /\ WrapI64(ab.row_count_change + ba.row_count_change) = 0
            /\ overflow_checks => ab.row_count_change = -ba.row_count_change

\* C3: row_count_change is the sum, over the table identities of either
\* snapshot, of (compare count or 0) - (base count or 0).
RowDelta ==
    [k \in DOMAIN BaseTables \cup DOMAIN CompareTables |->
        (IF k \in DOMAIN CompareTables THEN CompareTables[k].estimated_row_count ELSE 0)
        - (IF k \in DOMAIN BaseTables THEN BaseTables[k].estimated_row_count ELSE 0)]

C3_RowCountSum ==
    IsReturned(diff) =>
        Unwrap(diff).summary.row_count_change = SumOver(DOMAIN RowDelta, RowDelta)

\* what is left of C3: the sum, reduced to 64 bits; the sum itself where
\* overflow checks are on
C3_RowCountSumWrapped ==
    IsReturned(diff) =>
        /\ Unwrap(diff).summary.row_count_change
              = WrapI64(SumOver(DOMAIN RowDelta, RowDelta))
        /\ overflow_checks =>
              Unwrap(diff).summary.row_count_change = SumOver(DOMAIN RowDelta, RowDelta)

\* C4: a table only in compare appears exactly once, as Added, with one Added
\* ColumnDiff per column, no base_row_count, compare_row_count = its estimated
\* row count and has_data_change true; a table only in base likewise as Removed.
IsAddedTable(td, t) ==
    /\ td.change_type = "added"
    /\ Len(td.column_diffs) = Len(t.columns)
    /\ \A j \in DOMAIN t.columns :
          /\ td.column_diffs[j].change_type = "added"
          /\ td.column_diffs[j].column_name = t.columns[j].name
    /\ td.base_row_count = None
    /\ td.compare_row_count = Some(t.estimated_row_count)
    /\ td.has_data_change

IsRemovedTable(td, t) ==
    /\ td.change_type = "removed"
    /\ Len(td.column_diffs) = Len(t.columns)
    /\ \A j \in DOMAIN t.columns :
          /\ td.column_diffs[j].change_type = "removed"
          /\ td.column_diffs[j].column_name = t.columns[j].name
    /\ td.base_row_count = Some(t.estimated_row_count)
    /\ td.compare_row_count = None
    /\ td.has_data_change

ColumnDiffOf(k) ==
    compare_columns(BaseTables[k].columns, CompareTables[k].columns, <<S_id, S_email>>)

T_users_id       == TableInfo(S_app, S_users, 1, <<C_id>>)
T_users_id_email == TableInfo(S_app, S_users, 1, <<C_id, C_email>>)

C5_CommonTables ==
    IsReturned(diff) =>
        LET d == Unwrap(diff)
        IN  /\ \A k \in InBoth :
                  /\ DiffsOf(d, k) # {} <=>
                        \/ ColumnDiffOf(k) # <<>>
                        \/ BaseTables[k].estimated_row_count
                              # CompareTables[k].estimated_row_count
                  /\ Cardinality(DiffsOf(d, k)) <= 1
                  /\ \A i \in DiffsOf(d, k) :
                        /\ d.table_diffs[i].column_diffs = ColumnDiffOf(k)
                        /\ d.table_diffs[i].has_data_change =
                              (CompareTables[k].estimated_row_count
                                 - BaseTables[k].estimated_row_count # 0)
            /\ (base.tables = <<T_users_id>> /\ compare.tables = <<T_users_id_email>>) =>
                  /\ Len(d.table_diffs) = 1
                  /\ Len(d.table_diffs[1].column_diffs) = 1
                  /\ d.table_diffs[1].column_diffs[1].change_type = "added"
                  /\ d.table_diffs[1].column_diffs[1].column_name = S_email

\* one table of both snapshots is emitted for its row counts alone while
\* another, the same on both sides, is left out
C5_Witness ==
    /\ IsReturned(diff)
    /\ \E k \in InBoth :
          /\ ColumnDiffOf(k) = <<>>
          /\ DiffsOf(Unwrap(diff), k) # {}
    /\ \E k \in InBoth : DiffsOf(Unwrap(diff), k) = {}

\* C6 as stated: a table diff of a table in both snapshots is labelled
\* Modified only if its column_diffs is non-empty.
C6_ModifiedOnlyWithColumns ==
    IsReturned(diff) =>
        \A k \in InBoth : \A i \in DiffsOf(Unwrap(diff), k) :
            Unwrap(diff).table_diffs[i].change_type = "modified"
                => Unwrap(diff).table_diffs[i].column_diffs # <<>>

\* C6 amended: every table diff of a table in both snapshots is labelled
\* Modified, pure row-count drift included; summary.tables_modified counts
\* only those whose column_diffs is non-empty.
C6_ModifiedLabel ==
    IsReturned(diff) =>
        LET d == Unwrap(diff)
        IN  /\ \A k \in InBoth : \A i \in DiffsOf(d, k) :
                  d.table_diffs[i].change_type = "modified"
            /\ d.summary.tables_modified =
                  Cardinality({i \in DOMAIN d.table_diffs :
                                  /\ DiffKey(d.table_diffs[i]) \in InBoth
                                  /\ d.table_diffs[i].column_diffs # <<>>})

C6_Witness ==
    /\ IsReturned(diff)
    /\ \E i \in DOMAIN Unwrap(diff).table_diffs :
          /\ DiffKey(Unwrap(diff).table_diffs[i]) \in InBoth
          /\ Unwrap(diff).table_diffs[i].column_diffs = <<>>
          /\ Unwrap(diff).table_diffs[i].change_type = "modified"
    /\ Unwrap(diff).summary.tables_modified = 0

\* C8: fk_diffs holds exactly one Added entry per constraint_name only in
\* compare and one Removed entry per constraint_name only in base, each with
\* its foreign key in fk_info; a constraint_name of both snapshots gets no
\* entry, whatever else differs between the two foreign keys.
BaseFks    == FksByName(base.foreign_keys)
CompareFks == FksByName(compare.foreign_keys)

C8_FkDiffs ==
    IsReturned(diff) =>
        LET d == Unwrap(diff)
        IN  /\ \A n \in DOMAIN CompareFks \ DOMAIN BaseFks :
                  /\ Cardinality(FkDiffsOf(d, n)) = 1
                  /\ \A i \in FkDiffsOf(d, n) :
                        /\ d.fk_diffs[i].change_type = "added"
                        /\ d.fk_diffs[i].fk_info = Some(CompareFks[n])
            /\ \A n \in DOMAIN BaseFks \ DOMAIN CompareFks :
                  /\ Cardinality(FkDiffsOf(d, n)) = 1
                  /\ \A i \in FkDiffsOf(d, n) :
                        /\ d.fk_diffs[i].change_type = "removed"
                        /\ d.fk_diffs[i].fk_info = Some(BaseFks[n])
            /\ \A n \in DOMAIN BaseFks \cap DOMAIN CompareFks : FkDiffsOf(d, n) = {}
            /\ \A i \in DOMAIN d.fk_diffs :
                  d.fk_diffs[i].constraint_name \in DOMAIN BaseFks \cup DOMAIN CompareFks

\* fk_a is in both snapshots with another on_delete, fk_b came new
C8_Witness ==
    /\ IsReturned(diff)
    /\ \E n \in DOMAIN BaseFks \cap DOMAIN CompareFks : BaseFks[n] # CompareFks[n]
    /\ DOMAIN CompareFks \ DOMAIN BaseFks # {}
    /\ Len(Unwrap(diff).fk_diffs) = 1

\* C9: table_diffs ascends by (schema_name, table_name), fk_diffs by
\* constraint_name, and two runs on the same input end the same way whatever
\* order the hash sets are walked in.
C9_SortedDeterministic ==
    /\ IsReturned(diff) =>
          LET d == Unwrap(diff)
          IN  /\ \A i \in 1..(Len(d.table_diffs) - 1) :
                    KeyCmp(DiffKey(d.table_diffs[i]), DiffKey(d.table_diffs[i + 1])) < 0
              /\ \A i \in 1..(Len(d.fk_diffs) - 1) :
                    StrCmp(d.fk_diffs[i].constraint_name,
                           d.fk_diffs[i + 1].constraint_name) < 0
    /\ (IsSome(diff) /\ IsSome(again)) => diff = again

\* what is left of C9: a run that returns returns sorted lists, and two runs
\* that both return, or that run without overflow checks, agree
C9_SortedWhenReturned ==
    /\ IsReturned(diff) =>
          LET d == Unwrap(diff)
          IN  /\ \A i \in 1..(Len(d.table_diffs) - 1) :
                    KeyCmp(DiffKey(d.table_diffs[i]), DiffKey(d.table_diffs[i + 1])) < 0
              /\ \A i \in 1..(Len(d.fk_diffs) - 1) :
                    StrCmp(d.fk_diffs[i].constraint_name,
                           d.fk_diffs[i + 1].constraint_name) < 0
    /\ (IsReturned(diff) /\ IsReturned(again)) => diff = again
    /\ (IsSome(diff) /\ IsSome(again) /\ ~overflow_checks) => diff = again

\* C11: every ColumnDiff of a returned SchemaDiff has no base_info and a
\* compare_info when Added, a base_info and no compare_info when Removed, and
\* both when Modified.
InfosMatchKind(cd) ==
    /\ cd.change_type = "added" => (cd.base_info = None /\ IsSome(cd.compare_info))
    /\ cd.change_type = "removed" => (IsSome(cd.base_info) /\ cd.compare_info = None)
    /\ cd.change_type = "modified" => (IsSome(cd.base_info) /\ IsSome(cd.compare_info))

C11_ColumnDiffInfos ==
    IsReturned(diff) =>
        \A i \in DOMAIN Unwrap(diff).table_diffs :
            \A j \in DOMAIN Unwrap(diff).table_diffs[i].column_diffs :
                InfosMatchKind(Unwrap(diff).table_diffs[i].column_diffs[j])

\* the column diffs of one result are of all three kinds
C11_Witness ==
    /\ IsReturned(diff)
    /\ \A kind \in ChangeType :
          \E i \in DOMAIN Unwrap(diff).table_diffs :
             \E j \in DOMAIN Unwrap(diff).table_diffs[i].column_diffs :
                Unwrap(diff).table_diffs[i].column_diffs[j].change_type = kind

\* C12: compare_schemas is total: whatever the two snapshots, foreign keys
\* to absent tables and row counts anywhere in the i64 range included, the
\* call returns a SchemaDiff.
C12_Total == IsSome(diff) => ~Unwrap(diff).panicked

\* what is left of C12: without overflow checks every call returns, and with
\* them every call returns whose row count changes, summed as magnitudes, fit
\* an i64; a foreign key to an absent table never stops a call
RowDeltaSize == [k \in DOMAIN RowDelta |-> IF RowDelta[k] < 0 THEN -RowDelta[k] ELSE RowDelta[k]]

C12_TotalWhereInRange ==
    IsSome(diff) =>
        /\ ~overflow_checks => IsReturned(diff)
        /\ SumOver(DOMAIN RowDeltaSize, RowDeltaSize) <= I64_MAX => IsReturned(diff)

\* the TableDiffs of a kind, and the ColumnDiffs of a kind over all TableDiffs
TableDiffsOfKind(d, kind) == {i \in DOMAIN d.table_diffs : d.table_diffs[i].change_type = kind}
ColumnDiffsOfKind(d, kind) ==
    SumOver(DOMAIN d.table_diffs,
            [i \in DOMAIN d.table_diffs |->
                Cardinality({j \in DOMAIN d.table_diffs[i].column_diffs :
                                d.table_diffs[i].column_diffs[j].change_type = kind})])
FkDiffsOfKind(d, kind) == {i \in DOMAIN d.fk_diffs : d.fk_diffs[i].change_type = kind}

\* C23: in every result of compare_schemas the summary agrees with the lists:
\* tables_added and tables_removed count the Added and Removed TableDiffs,
\* tables_modified the TableDiffs of common tables with column diffs, the
\* columns_* counters the ColumnDiffs of each kind over all table_diffs, and
\* fk_added and fk_removed the Added and Removed fk_diffs.
C23_SummaryAgrees ==
    IsReturned(diff) =>
        LET d == Unwrap(diff)
        IN  /\ d.summary.tables_added = Cardinality(TableDiffsOfKind(d, "added"))
            /\ d.summary.tables_removed = Cardinality(TableDiffsOfKind(d, "removed"))
            /\ d.summary.tables_modified =
                  Cardinality({i \in DOMAIN d.table_diffs :
                                  /\ DiffKey(d.table_diffs[i]) \in InBoth
                                  /\ d.table_diffs[i].column_diffs # <<>>})
            /\ d.summary.columns_added = ColumnDiffsOfKind(d, "added")
            /\ d.summary.columns_removed = ColumnDiffsOfKind(d, "removed")
            /\ d.summary.columns_modified = ColumnDiffsOfKind(d, "modified")
            /\ d.summary.fk_added = Cardinality(FkDiffsOfKind(d, "added"))
            /\ d.summary.fk_removed = Cardinality(FkDiffsOfKind(d, "removed"))

\* a result with an added table next to a common table one of whose columns
\* was modified
C23_Witness ==
    /\ IsReturned(diff)
    /\ Len(Unwrap(diff).table_diffs) = 2
    /\ Unwrap(diff).summary.tables_added = 1
    /\ Unwrap(diff).summary.tables_modified = 1
    /\ Unwrap(diff).summary.columns_modified = 1
    /\ Unwrap(diff).summary.columns_added >= 1

---------------------------------------------------------------------------
(* Properties of compare_columns *)

BaseCols    == ColsByName(base_cols)
CompareCols == ColsByName(compare_cols)
ColDiffsOf(r, n) == {i \in DOMAIN r : r[i].column_name = n}

\* C10: compare_columns reports a column of both sides, as Modified, iff its
\* data_type, is_nullable, is_primary_key or default_value differs; a column
\* only in compare as Added; a column only in base as Removed; nothing else;
\* and the report ascends by column name.
C10_CompareColumns ==
    IsSome(col_diffs) =>
        LET r == Unwrap(col_diffs)
        IN  /\ \A n \in DOMAIN BaseCols \cap DOMAIN CompareCols :
                  /\ ColDiffsOf(r, n) # {} <=>
                        \/ BaseCols[n].data_type # CompareCols[n].data_type
                        \/ BaseCols[n].is_nullable # CompareCols[n].is_nullable
                        \/ BaseCols[n].is_primary_key # CompareCols[n].is_primary_key
                        \/ BaseCols[n].default_value # CompareCols[n].default_value
                  /\ \A i \in ColDiffsOf(r, n) : r[i].change_type = "modified"
            /\ \A n \in DOMAIN CompareCols \ DOMAIN BaseCols :
                  /\ ColDiffsOf(r, n) # {}
                  /\ \A i \in ColDiffsOf(r, n) : r[i].change_type = "added"
            /\ \A n \in DOMAIN BaseCols \ DOMAIN CompareCols :
                  /\ ColDiffsOf(r, n) # {}
                  /\ \A i \in ColDiffsOf(r, n) : r[i].change_type = "removed"
            /\ \A i \in DOMAIN r :
                  r[i].column_name \in DOMAIN BaseCols \cup DOMAIN CompareCols
            /\ \A i \in 1..(Len(r) - 1) :
                  StrCmp(r[i].column_name, r[i + 1].column_name) < 0

\* email differs in its default alone and id came new: the hash set may give
\* id before email, the report has email first
C10_Witness ==
    /\ IsSome(col_diffs)
    /\ base_cols = <<C_email>>
    /\ compare_cols = <<C_id, C_email_def>>
    /\ Len(Unwrap(col_diffs)) = 2
    /\ Unwrap(col_diffs)[1].change_type = "modified"
    /\ Unwrap(col_diffs)[2].change_type = "added"

---------------------------------------------------------------------------
(* Properties of compare_dumps *)

IsOk(o) == IsSome(o) /\ Unwrap(o).kind = "Ok"

\* a table diff that says nothing: no column diff, the same row count twice
IsNoop(td) == td.column_diffs = <<>> /\ td.base_row_count = td.compare_row_count

\* C7 as stated: no TableDiff of a final SchemaDiff, from compare_schemas or
\* from compare_dumps after the checksum pass, has both an empty column_diffs
\* and equal base and compare row counts.
C7_NoNoopTableDiff ==
    /\ IsReturned(diff) =>
          \A i \in DOMAIN Unwrap(diff).table_diffs : ~IsNoop(Unwrap(diff).table_diffs[i])
    /\ IsOk(response) =>
          \A i \in DOMAIN Unwrap(response).diff.table_diffs :
              ~IsNoop(Unwrap(response).diff.table_diffs[i])

\* C7 amended: compare_schemas returns no such TableDiff; compare_dumps returns
\* one only for a table of both snapshots whose two checksums were computed
\* and differ, labelled Modified with has_data_change true.
C7_NoopOnlyFromChecksums ==
    /\ IsReturned(diff) =>
          \A i \in DOMAIN Unwrap(diff).table_diffs : ~IsNoop(Unwrap(diff).table_diffs[i])
    /\ IsOk(response) =>
          \A i \in DOMAIN Unwrap(response).diff.table_diffs :
              LET td == Unwrap(response).diff.table_diffs[i]
              IN  IsNoop(td) =>
                     /\ DiffKey(td) \in InBoth
                     /\ base_checksum[DiffKey(td)].ok
                     /\ compare_checksum[DiffKey(td)].ok
                     /\ base_checksum[DiffKey(td)].checksum
                           # compare_checksum[DiffKey(td)].checksum
                     /\ td.change_type = "modified"
                     /\ td.has_data_change

\* the handler answered with a table diff that says nothing next to one that
\* compare_schemas had found, while a third table's checksum failed
C7_Witness ==
    /\ IsOk(response) /\ IsReturned(diff)
    /\ Unwrap(diff).table_diffs # <<>>
    /\ \E i \in DOMAIN Unwrap(response).diff.table_diffs :
          IsNoop(Unwrap(response).diff.table_diffs[i])
    /\ \E k \in InBoth : ~base_checksum[k].ok

\* the two checksums of common table k, as the loop matches them
ChecksumFailed(k) == ~base_checksum[k].ok \/ ~compare_checksum[k].ok
ChecksumsDiffer(k) ==
    /\ base_checksum[k].ok /\ compare_checksum[k].ok
    /\ base_checksum[k].checksum # compare_checksum[k].checksum
ChecksumsEqual(k) ==
    /\ base_checksum[k].ok /\ compare_checksum[k].ok
    /\ base_checksum[k].checksum = compare_checksum[k].checksum
\* the handler got as far as the checksum loop
ReachedChecksums == IsSome(response) /\ IsReturned(diff)
\* the response carries a TableDiff of table k with has_data_change set
FlaggedInResponse(k) ==
    \E i \in DiffsOf(Unwrap(response).diff, k) :
        Unwrap(response).diff.table_diffs[i].has_data_change

\* the TableDiffs of table k in a SchemaDiff
EntriesOf(d, k) == {d.table_diffs[i] : i \in DiffsOf(d, k)}

\* C18: when the checksum of one common table fails on either side, the handler
\* still answers with success, and every other common table is flagged by its
\* own two checksums: has_data_change is set when they differ, and the table
\* is left as compare_schemas reported it when they are equal.
C18_ChecksumFailureIsolated ==
    (ReachedChecksums /\ \E k \in InBoth : ChecksumFailed(k)) =>
        /\ IsOk(response)
        /\ \A k \in InBoth :
              /\ ChecksumsDiffer(k) => FlaggedInResponse(k)
              /\ ChecksumsEqual(k) =>
                    EntriesOf(Unwrap(response).diff, k) = EntriesOf(Unwrap(diff), k)

\* one table's checksum failed; another, the same table on both sides, has two
\* checksums that differ and is flagged
C18_Witness ==
    /\ IsOk(response)
    /\ \E k, f \in InBoth :
          /\ ChecksumFailed(f)
          /\ ChecksumsDiffer(k)
          /\ BaseTables[k] = CompareTables[k]
          /\ FlaggedInResponse(k)

\* the checksum results with every failed table given two equal checksums
Healed(sums) ==
    [k \in DOMAIN sums |-> IF ChecksumFailed(k) THEN ChecksumOk("d1") ELSE sums[k]]

\* C19: a table whose checksum could not be computed is reported as
\* indeterminate, in neither the changed nor the unchanged set: the response
\* differs from the response to the same request with that table's two
\* checksums computed and equal.
C19_FailureDistinguished ==
    (IsOk(response) /\ IsReturned(diff) /\ \E k \in InBoth : ChecksumFailed(k)) =>
        \A pord \in Perms(InBoth) :
            Unwrap(response) #
                compare_dumps(base_dump, compare_dump, query_database, connect_ok,
                              base, compare, Healed(base_checksum), Healed(compare_checksum),
                              Unwrap(diff), pord)

\* C20: a common table whose two checksums were both computed and differ has
\* exactly one TableDiff in the response, with has_data_change true, also when
\* its columns and row counts are identical; a common table with equal
\* checksums, equal row counts and no column diffs has none.
C20_DataChangeDiffs ==
    IsOk(response) =>
        \A k \in InBoth :
            LET d == Unwrap(response).diff
            IN  /\ ChecksumsDiffer(k) =>
                      /\ Cardinality(DiffsOf(d, k)) = 1
                      /\ \A i \in DiffsOf(d, k) : d.table_diffs[i].has_data_change
                /\ ( /\ ChecksumsEqual(k)
                     /\ BaseTables[k].estimated_row_count = CompareTables[k].estimated_row_count
                     /\ ColumnDiffOf(k) = <<>> ) => DiffsOf(d, k) = {}

\* two common tables with identical columns and row counts: the checksums of
\* one differ and it has its one TableDiff, those of the other are equal and it
\* has none
C20_Witness ==
    /\ IsOk(response)
    /\ \E k, u \in InBoth :
          /\ ChecksumsDiffer(k) /\ ChecksumsEqual(u)
          /\ BaseTables[k] = CompareTables[k]
          /\ BaseTables[u] = CompareTables[u]
          /\ Cardinality(DiffsOf(Unwrap(response).diff, k)) = 1
          /\ FlaggedInResponse(k)
          /\ DiffsOf(Unwrap(response).diff, u) = {}

---------------------------------------------------------------------------
(* Properties of compare_table_data *)

IsDataOk(o) == IsSome(o) /\ Unwrap(o).kind = "Ok"

KeyColumns == key_columns_of(pk_columns, all_columns)
FetchLimit == fetch_limit_of(pk_columns, sample_limit(query_limit))
\* the fetched row lists
BaseRows    == fetch_table_rows(base_data, all_columns, FetchLimit)
CompareRows == fetch_table_rows(compare_data, all_columns, FetchLimit)

RowKey(row) == key_value(row, KeyColumns)
FetchedKeys == {RowKey(BaseRows[i]) : i \in DOMAIN BaseRows}
                  \cup {RowKey(CompareRows[i]) : i \in DOMAIN CompareRows}
\* occurrence counts, 0 for a key that does not occur
CountBase(k)    == Cardinality({i \in DOMAIN BaseRows : RowKey(BaseRows[i]) = k})
CountCompare(k) == Cardinality({i \in DOMAIN CompareRows : RowKey(CompareRows[i]) = k})
Excess(a, b) == IF a > b THEN a - b ELSE 0

\* C13: total_added is the sum over the row keys k of
\* max(0, count_compare(k) - count_base(k)) and total_removed the sum of
\* max(0, count_base(k) - count_compare(k)); base [r, r] against compare [r]
\* gives total_removed = 1 and total_added = 0.
C13_AddedRemovedTotals ==
    IsDataOk(data_response) =>
        /\ Unwrap(data_response).total_added =
              SumOver(FetchedKeys, [k \in FetchedKeys |-> Excess(CountCompare(k), CountBase(k))])
        /\ Unwrap(data_response).total_removed =
              SumOver(FetchedKeys, [k \in FetchedKeys |-> Excess(CountBase(k), CountCompare(k))])
        /\ (\E r \in RowPool : BaseRows = <<r, r>> /\ CompareRows = <<r>>) =>
              /\ Unwrap(data_response).total_removed = 1
              /\ Unwrap(data_response).total_added = 0

\* a table without primary key lost one of two equal rows
C13_Witness ==
    /\ IsDataOk(data_response)
    /\ pk_columns = <<>>
    /\ \E r \in RowPool : BaseRows = <<r, r>> /\ CompareRows = <<r>>
    /\ Unwrap(data_response).total_removed = 1

\* the first fetched row of a key
Exemplar(rows, k) ==
    rows[CHOOSE i \in DOMAIN rows :
            RowKey(rows[i]) = k /\ \A j \in DOMAIN rows : RowKey(rows[j]) = k => i <= j]
BaseKeys    == {RowKey(BaseRows[i]) : i \in DOMAIN BaseRows}
CompareKeys == {RowKey(CompareRows[i]) : i \in DOMAIN CompareRows}
NonKeyColumns == Range(all_columns) \ Range(KeyColumns)
\* the non-key columns in which the two exemplar rows of a key differ
Differing(k) ==
    {c \in NonKeyColumns : Exemplar(BaseRows, k)[c] # Exemplar(CompareRows, k)[c]}
IsModifiedKey(k) ==
    /\ pk_columns # <<>>
    /\ k \in BaseKeys \cap CompareKeys
    /\ Differing(k) # {}

\* C14: a row key counts in total_modified iff the table has a primary key,
\* the key occurs on both sides and the two exemplar rows differ in a non-key
\* column; changed_columns lists exactly those columns; without primary key
\* total_modified is 0 and no RowDiff is "modified".
C14_ModifiedRows ==
    IsDataOk(data_response) =>
        LET r == Unwrap(data_response)
        IN  /\ r.total_modified = Cardinality({k \in FetchedKeys : IsModifiedKey(k)})
            /\ \A i \in DOMAIN r.rows :
                  r.rows[i].change_type = "modified" =>
                     /\ IsModifiedKey(r.rows[i].pk)
                     /\ Range(r.rows[i].changed_columns) = Differing(r.rows[i].pk)
                     /\ Len(r.rows[i].changed_columns)
                           = Cardinality(Differing(r.rows[i].pk))
            /\ pk_columns = <<>> =>
                  /\ r.total_modified = 0
                  /\ \A i \in DOMAIN r.rows : r.rows[i].change_type # "modified"
            /\ (/\ pk_columns = <<S_id>>
                /\ BaseRows = <<Row(J_5, J_x)>>
                /\ CompareRows = <<Row(J_5, J_y)>>) =>
                  /\ Len(r.rows) = 1
                  /\ r.rows[1].change_type = "modified"
                  /\ r.rows[1].changed_columns = <<S_name>>

\* primary key id, row 5 changed its name from "x" to "y"
C14_Witness ==
    /\ IsDataOk(data_response)
    /\ pk_columns = <<S_id>>
    /\ BaseRows = <<Row(J_5, J_x)>>
    /\ CompareRows = <<Row(J_5, J_y)>>
    /\ Unwrap(data_response).total_modified = 1
    /\ Len(Unwrap(data_response).rows) = 1

\* the requested limit capped at 1000
SampleLimit == sample_limit(query_limit)
\* the totals of the same fetched rows under a limit no row list can reach
Unlimited ==
    diff_fetched_rows(BaseRows, CompareRows, pk_columns, all_columns,
                      Len(BaseRows) + Len(CompareRows) + 1,
                      CHOOSE o \in Perms(BaseKeys) : TRUE,
                      CHOOSE o \in Perms(CompareKeys) : TRUE)
\* the added rows, occurrence by occurrence, and the keys they belong to
AddedOccurrences ==
    SumOver(FetchedKeys, [k \in FetchedKeys |-> Excess(CountCompare(k), CountBase(k))])
AddedKeys   == {k \in FetchedKeys : CountCompare(k) > CountBase(k)}
RemovedKeys == {k \in FetchedKeys : CountBase(k) > CountCompare(k)}
\* the differences the two loops detect, one per key and kind
Detected ==
    Cardinality(AddedKeys) + Cardinality(RemovedKeys)
       + Cardinality({k \in FetchedKeys : IsModifiedKey(k)})

LimitKeepsTotals ==
    LET r == Unwrap(data_response)
        u == Unlimited
    IN  /\ Len(r.rows) <= SampleLimit
        /\ <<r.total_added, r.total_removed, r.total_modified>>
              = <<u.total_added, u.total_removed, u.total_modified>>
        /\ r.truncated = (Len(r.rows) >= SampleLimit)

\* C15 as stated: rows holds at most L entries, the totals are those computed
\* with no limit, truncated = (rows.len() >= L), and with N > L added rows
\* rows.len() = L, truncated is true and total_added = N.
C15_LimitAndTotals ==
    IsDataOk(data_response) =>
        /\ LimitKeepsTotals
        /\ AddedOccurrences > SampleLimit =>
              /\ Len(Unwrap(data_response).rows) = SampleLimit
              /\ Unwrap(data_response).truncated
              /\ Unwrap(data_response).total_added = AddedOccurrences

\* C15 amended: rows holds min(L, D) entries, D the number of detected
\* differences (one per key and kind, however many rows of the key were
\* added); so with more than L added keys rows.len() = L, truncated is true
\* and total_added is the number of added rows.
C15_LimitCountsKeys ==
    IsDataOk(data_response) =>
        /\ LimitKeepsTotals
        /\ Len(Unwrap(data_response).rows) = Min(SampleLimit, Detected)
        /\ Cardinality(AddedKeys) > SampleLimit =>
              /\ Len(Unwrap(data_response).rows) = SampleLimit
              /\ Unwrap(data_response).truncated
              /\ Unwrap(data_response).total_added = AddedOccurrences

\* limit 1 and three added rows of three keys
C15_Witness ==
    /\ IsDataOk(data_response)
    /\ query_limit = 1
    /\ Cardinality(AddedKeys) = 3
    /\ Len(Unwrap(data_response).rows) = 1
    /\ Unwrap(data_response).truncated
    /\ Unwrap(data_response).total_added = 3

\* a fetched row that lacks one of the key columns
LacksKeyColumn(row) == \E i \in DOMAIN KeyColumns : KeyColumns[i] \notin DOMAIN row
AbsentKeyColumn ==
    \/ \E i \in DOMAIN BaseRows : LacksKeyColumn(BaseRows[i])
    \/ \E i \in DOMAIN CompareRows : LacksKeyColumn(CompareRows[i])

\* C16: when key_columns names a column that is absent from a fetched row,
\* the request ends in an error and no diff result is produced.
C16_AbsentKeyColumnFails ==
    (IsSome(data_response) /\ AbsentKeyColumn) => ~IsDataOk(data_response)

\* the RowDiffs of a response
RowDiffs == Unwrap(data_response).rows

LeftOut == Detected - Len(RowDiffs)

\* C25 as stated: truncated is true exactly when at least one detected row
\* difference was left out of rows because the limit had been reached, and
\* false when every detected difference is listed.
C25_TruncatedIffLeftOut ==
    IsDataOk(data_response) => (Unwrap(data_response).truncated <=> LeftOut > 0)

\* C25 amended: truncated is true exactly when the number of detected
\* differences is at least the limit; it is true whenever a difference was
\* left out, and also when exactly as many differences as the limit were
\* detected and all of them are listed.
C25_TruncatedIffLimitReached ==
    IsDataOk(data_response) =>
        /\ Unwrap(data_response).truncated <=> Detected >= SampleLimit
        /\ LeftOut > 0 => Unwrap(data_response).truncated
        /\ LeftOut >= 0

\* two differences, limit 2: both listed and truncated set
C25_Witness ==
    /\ IsDataOk(data_response)
    /\ query_limit = 2 /\ Detected = 2 /\ Len(RowDiffs) = 2
    /\ Unwrap(data_response).truncated

---------------------------------------------------------------------------
(* Properties of calculate_table_checksum *)

BothChecksummed ==
    /\ base_checksum # <<>>
    /\ base_checksum[ItemsKey].ok /\ compare_checksum[ItemsKey].ok
FlaggedAsChanged ==
    ItemsKey \in tables_with_data_changes(base, compare, base_checksum, compare_checksum)
EqualDigests == base_checksum[ItemsKey].checksum = compare_checksum[ItemsKey].checksum

Occurrences(data, row) == Cardinality({i \in DOMAIN data : data[i] = row})
SameMultiset(a, b) ==
    \A row \in Range(a) \cup Range(b) : Occurrences(a, row) = Occurrences(b, row)
\* b is a with one value of one row changed
OneValueChanged(a, b) ==
    /\ Len(a) = Len(b)
    /\ \E i \in DOMAIN a :
          /\ \A j \in DOMAIN a : j # i => b[j] = a[j]
          /\ Cardinality({c \in DOMAIN a[i] : b[i][c] # a[i][c]}) = 1

\* C17: two tables holding the same multiset of rows get equal digests in
\* whatever order either side returns its rows, and the table is not flagged;
\* two tables that differ in one value of one row get different digests.
C17_ChecksumGate ==
    BothChecksummed =>
        /\ SameMultiset(base_data, compare_data) => (EqualDigests /\ ~FlaggedAsChanged)
        /\ OneValueChanged(base_data, compare_data) => ~EqualDigests

\* what holds of the digests: C17 restricted to tables of at most
\* checksum_row_limit rows, and in general for the rows the query reads
C17_ChecksumGateWithinLimit ==
    BothChecksummed =>
        /\ (Len(base_data) <= checksum_row_limit /\ Len(compare_data) <= checksum_row_limit) =>
              /\ SameMultiset(base_data, compare_data) => (EqualDigests /\ ~FlaggedAsChanged)
              /\ OneValueChanged(base_data, compare_data) => ~EqualDigests
        /\ EqualDigests <=>
              SameMultiset(SubSeq(base_data, 1, Min(Len(base_data), checksum_row_limit)),
                           SubSeq(compare_data, 1, Min(Len(compare_data), checksum_row_limit)))

---------------------------------------------------------------------------
(* Properties of both handlers *)

NoRecord == ~IsSome(base_dump) \/ ~IsSome(compare_dump)
NotReady ==
    /\ IsSome(base_dump) /\ IsSome(compare_dump)
    /\ Unwrap(base_dump).status # "READY" \/ Unwrap(compare_dump).status # "READY"

\* C21: compare_dumps and compare_table_data answer NotFound when either dump
\* id has no record, and BadRequest when both records exist and the base or
\* the compare dump is not READY; in both cases no diff is computed.
C21_StatusGuards ==
    /\ IsSome(response) =>
          /\ NoRecord => Unwrap(response).kind = "NotFound"
          /\ NotReady => Unwrap(response).kind = "BadRequest"
          /\ (NoRecord \/ NotReady) => (diff = None /\ Unwrap(response).diff = NoDiff)
    /\ IsSome(data_response) =>
          /\ NoRecord => Unwrap(data_response).kind = "NotFound"
          /\ NotReady => Unwrap(data_response).kind = "BadRequest"
          /\ (NoRecord \/ NotReady) =>
                /\ Unwrap(data_response).rows = <<>>
                /\ Unwrap(data_response).total_modified = 0

\* both handlers refused a base dump that is still RESTORING
C21_Witness ==
    /\ base_dump = Some(R_restoring) /\ compare_dump = Some(R_ready)
    /\ IsSome(response) /\ Unwrap(response).kind = "BadRequest"
    /\ IsSome(data_response) /\ Unwrap(data_response).kind = "BadRequest"

---------------------------------------------------------------------------
(* Properties of find_related_tables *)

\* the tables one foreign key away from a table of T, in either direction
Neighbours(T) ==
    {TargetKey(base.foreign_keys[i]) :
        i \in {j \in DOMAIN base.foreign_keys : SourceKey(base.foreign_keys[j]) \in T}}
    \cup
    {SourceKey(base.foreign_keys[i]) :
        i \in {j \in DOMAIN base.foreign_keys : TargetKey(base.foreign_keys[j]) \in T}}

\* the tables at most n foreign keys away from the start
RECURSIVE WithinHops(_)
WithinHops(n) ==
    IF n = 0 THEN {start_table}
    ELSE WithinHops(n - 1) \cup Neighbours(WithinHops(n - 1))

RelatedKey(r) == <<r.schema, r.table>>
RelatedKeys == {RelatedKey(Unwrap(related)[i]) : i \in DOMAIN Unwrap(related)}
EachOnce ==
    \A i, j \in DOMAIN Unwrap(related) :
        i # j => RelatedKey(Unwrap(related)[i]) # RelatedKey(Unwrap(related)[j])

\* C22: find_related_tables returns every table other than the start that is
\* at most max_hops foreign keys away from it, in either direction, each once,
\* and no table farther away.
C22_RelatedTables ==
    IsSome(related) =>
        /\ RelatedKeys = WithinHops(max_hops) \ {start_table}
        /\ EachOnce

\* what holds of the result: no table twice, none farther away than max_hops,
\* all of them up to two hops
C22_RelatedTablesSound ==
    IsSome(related) =>
        /\ EachOnce
        /\ RelatedKeys \subseteq WithinHops(max_hops) \ {start_table}
        /\ max_hops <= 2 => RelatedKeys = WithinHops(max_hops) \ {start_table}

---------------------------------------------------------------------------
(* Properties of compare_table_data over whole tables *)

\* the three totals of the request with limit L on the same two tables
TotalsUnder(L) ==
    LET r == compare_table_data(base_dump, compare_dump, query_database, connect_ok,
                                pk_columns, all_columns, base_data, compare_data, L,
                                CHOOSE o \in Perms(RowKeys(base_data)) : TRUE,
                                CHOOSE o \in Perms(RowKeys(compare_data)) : TRUE)
    IN  <<r.total_added, r.total_removed, r.total_modified>>
Totals ==
    <<Unwrap(data_response).total_added, Unwrap(data_response).total_removed,
      Unwrap(data_response).total_modified>>
\* a request with limit L reads both tables to the end
FetchesAll(L) ==
    /\ Len(base_data) <= fetch_limit_of(pk_columns, sample_limit(L))
    /\ Len(compare_data) <= fetch_limit_of(pk_columns, sample_limit(L))

\* C26: for fixed contents of the two tables the three totals are the same
\* for every requested limit.
C26_TotalsIndependentOfLimit ==
    IsDataOk(data_response) => \A L \in SampleLimits : Totals = TotalsUnder(L)

\* what holds of the totals: they are the same for any two limits under which
\* both tables are read to the end, as every limit is without a primary key
C26_TotalsIndependentWhereAllFetched ==
    IsDataOk(data_response) =>
        /\ \A L \in SampleLimits :
              (FetchesAll(query_limit) /\ FetchesAll(L)) => Totals = TotalsUnder(L)
        /\ pk_columns = <<>> => FetchesAll(query_limit)

\* C27: when the two tables hold the same multiset of rows, the three totals
\* are 0 and rows is empty, whatever the size of the table and whatever order
\* each database returns its rows in.
C27_SameMultisetNoDiff ==
    (IsDataOk(data_response) /\ SameMultiset(base_data, compare_data)) =>
        /\ Totals = <<0, 0, 0>>
        /\ Unwrap(data_response).rows = <<>>

\* what holds: C27 for requests that read both tables to the end
C27_SameMultisetNoDiffWhereAllFetched ==
    (IsDataOk(data_response) /\ SameMultiset(base_data, compare_data)
        /\ FetchesAll(query_limit)) =>
        /\ Totals = <<0, 0, 0>>
        /\ Unwrap(data_response).rows = <<>>

---------------------------------------------------------------------------
(* Properties of find_sandbox_db_for_original *)

SandboxDatabases ==
    IF IsSome(Unwrap(base_dump).sandbox_databases)
    THEN Unwrap(Unwrap(base_dump).sandbox_databases) ELSE <<>>

\* the original database a listed sandbox database was restored from
OriginalOf(db) ==
    created_for[CHOOSE i \in DOMAIN SandboxDatabases : SandboxDatabases[i] = db]

Looked == sandbox_db # None
Found  == Looked /\ IsSome(Unwrap(sandbox_db))

\* C28: with database D selected, find_sandbox_db_for_original returns only a
\* sandbox database that was restored from original database D, whatever else
\* the dump's sandbox_databases holds and in whatever order
C28_OnlyOwnDatabase ==
    Found => OriginalOf(Unwrap(Unwrap(sandbox_db))) = Unwrap(query_database)

\* an original database whose name ends with _D without being D
ShadowsSelected(original) ==
    /\ original # Unwrap(query_database)
    /\ EndsWith(original, S_underscore \o Unwrap(query_database))

\* what does hold: the result is the first listed name that ends with _D or is
\* D, and it is D's own database when no listed original ends with _D
C28_FirstSuffixMatch ==
    Looked =>
        /\ Found =>
              LET db == Unwrap(Unwrap(sandbox_db))
              IN /\ db \in Range(SandboxDatabases)
                 /\ \/ EndsWith(db, S_underscore \o Unwrap(query_database))
                    \/ db = Unwrap(query_database)
                 /\ (\A o \in Range(created_for) : ~ShadowsSelected(o)) =>
                       OriginalOf(db) = Unwrap(query_database)
        /\ ~Found => Unwrap(query_database) \notin Range(created_for)

C28_Witness ==
    /\ Found
    /\ Len(SandboxDatabases) = 3
    /\ OriginalOf(Unwrap(Unwrap(sandbox_db))) = S_shop
    /\ SandboxDatabases[1] # Unwrap(Unwrap(sandbox_db))

---------------------------------------------------------------------------
(* Properties of the dump status *)

StatusSteps ==
    {<<S_CREATED, S_UPLOADED>>, <<S_UPLOADED, S_RESTORING>>,
     <<S_RESTORING, S_ANALYZING>>, <<S_ANALYZING, S_READY>>,
     <<S_RESTORING, S_ERROR>>, <<S_ANALYZING, S_ERROR>>}

StatusStepOk(id) ==
    dump_status'[id] # dump_status[id] =>
       <<dump_status[id], dump_status'[id]>> \in StatusSteps

\* C29: whatever the interleaving of upload_dump, restore_dump and the worker,
\* the status of a dump moves only CREATED -> UPLOADED -> RESTORING ->
\* ANALYZING -> READY, or from RESTORING or ANALYZING to ERROR
C29_StatusSteps == [][\A id \in Dumps : StatusStepOk(id)]_vars

\* C30: while the worker loop runs, every dump that is RESTORING is READY or
\* ERROR at some later time
C30_RestoringSettles ==
    \A id \in Dumps :
       (dump_status[id] = S_RESTORING) ~> (dump_status[id] \in {S_READY, S_ERROR})

\* what does hold: the worker gets to every RESTORING and every ANALYZING dump,
\* however many others are waiting
C30_WorkerReachesEveryJob ==
    \A id \in Dumps :
       (dump_status[id] \in {S_RESTORING, S_ANALYZING}) ~>
           (dump_status[id] \notin {S_RESTORING, S_ANALYZING})

===========================================================================
